---------------------------- MODULE Spec2Model ----------------------------
(***************************************************************************)
(* slack-markdown-proxy: the Markdown parser (markdown-parser.ts, the      *)
(* version with italic, link and ordered-list support that page.ts         *)
(* imports) and the Quill Delta compiler and host glue of page.ts.         *)
(*                                                                         *)
(* A JavaScript string is a sequence of one-character strings, indexed     *)
(* from 0 through the helpers below, so that slicing, searching and        *)
(* splitting are computed and not assumed.  An inline token, a block       *)
(* token and a Delta operation are records with the fields of the          *)
(* TypeScript object literals that build them.                             *)
(***************************************************************************)
EXTENDS Integers, Sequences, FiniteSets, TLC

VARIABLES
    pc,         \* control point of the call under way
    text,       \* argument of parseInline / parseMarkdown / slackMarkdown
    tokens,     \* token list returned by the parser (argument of the compiler)
    inherited,  \* third argument of pushInlineOps
    index,      \* startIndex of buildDelta, index of slackMarkdown
    ops,        \* operation list built by the compiler
    quill,      \* the Quill instance: its document and its selection
    dom,        \* what the page holds of the editor: element, container, instance
    event,      \* the paste event the listener is handling
    detected,   \* value returned by looksLikeMarkdown
    window,     \* what the page script has left on the page's window and document
    dispatch,   \* the browser's dispatch of the paste event to the listeners
    executions  \* how many times the page script has been executed in the page

vars == <<pc, text, tokens, inherited, index, ops, quill, dom, event, detected,
          window, dispatch, executions>>

-----------------------------------------------------------------------------
(* The page outside a call of slackMarkdown *)

\* no page: the parser and the compiler called on their own
NoQuill == <<>>
NoDom == <<>>

\* no paste event dispatched
NoEvent == <<>>
NoDispatch == [pending |-> 0, conversions |-> 0]

\* typeof window === "undefined": the modules imported outside a page
NoWindow == <<>>

-----------------------------------------------------------------------------
(* JavaScript strings *)

\* what text[i] evaluates to when i is out of range
Undefined == "undefined"

\* text[i]
At(s, i) == IF i >= 0 /\ i < Len(s) THEN s[i + 1] ELSE Undefined

\* s.slice(a, b) for a, b >= 0: an end beyond the string stops at its end
slice(s, a, b) == SubSeq(s, a + 1, IF b > Len(s) THEN Len(s) ELSE b)

\* s.slice(a)
sliceFrom(s, a) == SubSeq(s, a + 1, Len(s))

SetMin(S) == CHOOSE m \in S : \A n \in S : m <= n

\* s.indexOf(needle, from)
indexOf(s, needle, from) ==
    LET hits == {p \in from..(Len(s) - Len(needle)) :
                    SubSeq(s, p + 1, p + Len(needle)) = needle}
    IN IF hits = {} THEN -1 ELSE SetMin(hits)

-----------------------------------------------------------------------------
(* Inline tokens *)

Text(content) == [type |-> "text", content |-> content]
Bold(children) == [type |-> "bold", children |-> children]
Italic(children) == [type |-> "italic", children |-> children]
Link(children, url) == [type |-> "link", children |-> children, url |-> url]

-----------------------------------------------------------------------------
(* parseInline: the character-level scanner *)

RECURSIVE parseInline(_)

\* the scanner's locals at loop entry
ScanInit == [i |-> 0, buf |-> <<>>, tokens |-> <<>>]

\* faulty variant: flushes an empty buf too
flushBufBug(toks, buf) == Append(toks, Text(buf))

\* flushBuf(): the token list after the flush (buf is then reset by the caller)
flushBuf(toks, buf) == IF Len(buf) > 0 THEN Append(toks, Text(buf)) ELSE toks

\* faulty variant: `(` does not deepen, so the first `)` ends the url
RECURSIVE ScanParensBug(_, _, _)
ScanParensBug(s, j, depth) ==
    IF j < Len(s) /\ depth > 0
    THEN ScanParensBug(s, j + 1, IF At(s, j) = ")" THEN depth - 1 ELSE depth)
    ELSE [j |-> j, depth |-> depth]

\* the parenthesis-depth loop of the link branch, from its state (j, depth)
RECURSIVE ScanParens(_, _, _)
ScanParens(s, j, depth) ==
    IF j < Len(s) /\ depth > 0
    THEN ScanParens(s, j + 1,
                    IF At(s, j) = "(" THEN depth + 1
                    ELSE IF At(s, j) = ")" THEN depth - 1
                    ELSE depth)
    ELSE [j |-> j, depth |-> depth]

NoMatch == [ok |-> FALSE]

\* the link branch at cursor i: whether it matches, the inner text, the url
\* and the cursor after the match
MatchLink(s, i) ==
    IF At(s, i) # "[" THEN NoMatch
    ELSE LET closeBracket == indexOf(s, <<"]">>, i + 1)
         IN IF closeBracket = -1 \/ At(s, closeBracket + 1) # "(" THEN NoMatch
            ELSE LET r == ScanParens(s, closeBracket + 2, 1)
                     linkText == slice(s, i + 1, closeBracket)
                     linkUrl == slice(s, closeBracket + 2, r.j - 1)
                 IN IF r.depth = 0 /\ Len(linkText) > 0 /\ Len(linkUrl) > 0
                    THEN [ok |-> TRUE, inner |-> linkText, url |-> linkUrl,
                          next |-> r.j]
                    ELSE NoMatch

\* faulty variant: no test that boldContent is non-empty
MatchBoldBug(s, i) ==
    IF ~(At(s, i) = "*" /\ At(s, i + 1) = "*") THEN NoMatch
    ELSE LET boldEnd == indexOf(s, <<"*", "*">>, i + 2)
         IN IF boldEnd = -1 THEN NoMatch
            ELSE [ok |-> TRUE, inner |-> slice(s, i + 2, boldEnd),
                  next |-> boldEnd + 2]

\* the bold branch at cursor i
MatchBold(s, i) ==
    IF ~(At(s, i) = "*" /\ At(s, i + 1) = "*") THEN NoMatch
    ELSE LET boldEnd == indexOf(s, <<"*", "*">>, i + 2)
         IN IF boldEnd = -1 THEN NoMatch
            ELSE LET boldContent == slice(s, i + 2, boldEnd)
                 IN IF Len(boldContent) > 0
                    THEN [ok |-> TRUE, inner |-> boldContent,
                          next |-> boldEnd + 2]
                    ELSE NoMatch

\* faulty variant: the last lone * closes, not the first
RECURSIVE FindItalicCloseLast(_, _)
FindItalicCloseLast(s, j) ==
    IF j >= Len(s) THEN -1
    ELSE LET later == FindItalicCloseLast(s, j + 1)
         IN IF later # -1 THEN later
            ELSE IF At(s, j) = "*" /\ At(s, j + 1) # "*" /\ At(s, j - 1) # "*"
            THEN j
            ELSE -1

\* the search for the closing * of the italic branch, from j
RECURSIVE FindItalicClose(_, _)
FindItalicClose(s, j) ==
    IF j >= Len(s) THEN -1
    ELSE IF At(s, j) = "*" /\ At(s, j + 1) # "*" /\ At(s, j - 1) # "*" THEN j
    ELSE FindItalicClose(s, j + 1)

\* the italic branch at cursor i
MatchItalic(s, i) ==
    IF ~(At(s, i) = "*" /\ At(s, i + 1) # "*") THEN NoMatch
    ELSE LET found == FindItalicClose(s, i + 1)
         IN IF found = -1 THEN NoMatch
            ELSE LET italicContent == slice(s, i + 1, found)
                 IN IF Len(italicContent) > 0
                    THEN [ok |-> TRUE, inner |-> italicContent,
                          next |-> found + 1]
                    ELSE NoMatch

\* faulty variant: the inner text is kept as one Text, not parsed
ScanStepBug(s, st) ==
    LET link == MatchLink(s, st.i)
        bold == MatchBold(s, st.i)
        italic == MatchItalic(s, st.i)
        flushed == flushBuf(st.tokens, st.buf)
    IN IF link.ok
       THEN [i |-> link.next, buf |-> <<>>,
             tokens |-> Append(flushed, Link(<<Text(link.inner)>>, link.url))]
       ELSE IF bold.ok
       THEN [i |-> bold.next, buf |-> <<>>,
             tokens |-> Append(flushed, Bold(<<Text(bold.inner)>>))]
       ELSE IF italic.ok
       THEN [i |-> italic.next, buf |-> <<>>,
             tokens |-> Append(flushed, Italic(<<Text(italic.inner)>>))]
       ELSE [i |-> st.i + 1, buf |-> Append(st.buf, At(s, st.i)),
             tokens |-> st.tokens]

\* faulty variant: a plain character met with buf empty is buffered without
\* the cursor moving
ScanStepStall(s, st) ==
    LET link == MatchLink(s, st.i)
        bold == MatchBold(s, st.i)
        italic == MatchItalic(s, st.i)
        flushed == flushBuf(st.tokens, st.buf)
    IN IF link.ok
       THEN [i |-> link.next, buf |-> <<>>,
             tokens |-> Append(flushed, Link(parseInline(link.inner), link.url))]
       ELSE IF bold.ok
       THEN [i |-> bold.next, buf |-> <<>>,
             tokens |-> Append(flushed, Bold(parseInline(bold.inner)))]
       ELSE IF italic.ok
       THEN [i |-> italic.next, buf |-> <<>>,
             tokens |-> Append(flushed, Italic(parseInline(italic.inner)))]
       ELSE [i |-> IF st.buf = <<>> THEN st.i ELSE st.i + 1,
             buf |-> Append(st.buf, At(s, st.i)),
             tokens |-> st.tokens]

\* faulty variant: a plain character is pushed at once as a Text of its own
ScanStepEach(s, st) ==
    LET link == MatchLink(s, st.i)
        bold == MatchBold(s, st.i)
        italic == MatchItalic(s, st.i)
        flushed == flushBuf(st.tokens, st.buf)
    IN IF link.ok
       THEN [i |-> link.next, buf |-> <<>>,
             tokens |-> Append(flushed, Link(parseInline(link.inner), link.url))]
       ELSE IF bold.ok
       THEN [i |-> bold.next, buf |-> <<>>,
             tokens |-> Append(flushed, Bold(parseInline(bold.inner)))]
       ELSE IF italic.ok
       THEN [i |-> italic.next, buf |-> <<>>,
             tokens |-> Append(flushed, Italic(parseInline(italic.inner)))]
       ELSE [i |-> st.i + 1, buf |-> <<>>,
             tokens |-> Append(st.tokens, Text(<<At(s, st.i)>>))]

\* one iteration of the while loop: link, then bold, then italic, else the
\* character joins buf
ScanStep(s, st) ==
    LET link == MatchLink(s, st.i)
        bold == MatchBold(s, st.i)
        italic == MatchItalic(s, st.i)
        flushed == flushBuf(st.tokens, st.buf)
    IN IF link.ok
       THEN [i |-> link.next, buf |-> <<>>,
             tokens |-> Append(flushed, Link(parseInline(link.inner), link.url))]
       ELSE IF bold.ok
       THEN [i |-> bold.next, buf |-> <<>>,
             tokens |-> Append(flushed, Bold(parseInline(bold.inner)))]
       ELSE IF italic.ok
       THEN [i |-> italic.next, buf |-> <<>>,
             tokens |-> Append(flushed, Italic(parseInline(italic.inner)))]
       ELSE [i |-> st.i + 1, buf |-> Append(st.buf, At(s, st.i)),
             tokens |-> st.tokens]

\* the while loop, from the locals st to the locals at loop exit
RECURSIVE ScanLoop(_, _)
ScanLoop(s, st) == IF st.i < Len(s) THEN ScanLoop(s, ScanStep(s, st)) ELSE st

parseInline(s) ==
    LET st == ScanLoop(s, ScanInit) IN flushBuf(st.tokens, st.buf)

\* the locals at the head of every iteration of the loop, and at its exit
RECURSIVE ScanTrace(_, _)
ScanTrace(s, st) ==
    IF st.i < Len(s) THEN <<st>> \o ScanTrace(s, ScanStep(s, st)) ELSE <<st>>

-----------------------------------------------------------------------------
(* Inputs of the inline scanner *)

MaxLen == 5
MaxLinkText == 2
MaxUrl == 4
MaxStars == 7

InlineChars == {"*", "[", "]", "(", ")", "a"}
UrlChars == {"(", ")", "a"}

\* every string over S of length lo..hi
Strings(S, lo, hi) == UNION {[1..n -> S] : n \in lo..hi}

\* [t](u)
LinkSource(t, u) == <<"[">> \o t \o <<"]", "(">> \o u \o <<")">>

LinkShaped ==
    {LinkSource(t, u) : t \in Strings(InlineChars \ {"]"}, 1, MaxLinkText),
                        u \in Strings(UrlChars, 1, MaxUrl)}

\* the strings worked through in the parser's documentation
Click == <<"c", "l", "i", "c", "k">>
XCom == <<"h", "t", "t", "p", ":", "/", "/", "x", ".", "c", "o", "m">>
WikiUrl ==
    <<"h", "t", "t", "p", "s", ":", "/", "/", "e", "n", ".", "w", "i", "k", "i",
      "p", "e", "d", "i", "a", ".", "o", "r", "g", "/", "w", "i", "k", "i", "/",
      "F", "o", "o", "_", "(", "b", "a", "r", ")">>
Unclosed == <<"u", "n", "c", "l", "o", "s", "e", "d">>
ExUnclosedBold == <<"*", "*">> \o Unclosed
ExUnclosedItalic == <<"*">> \o Unclosed
ExItalicLink == <<"*">> \o LinkSource(Click, XCom) \o <<"*">>
ExBoldItalic == <<"*", "*", "a", " ", "*", "b", "*", " ", "c", "*", "*">>
ExItalicBold ==
    <<"*", "s", "o", "m", "e", " ", "*", "*", "b", "o", "l", "d", "*", "*", " ",
      "t", "e", "x", "t", "*">>
ExWikiLink == LinkSource(<<"w", "i", "k", "i">>, WikiUrl)
ExTwoBolds ==
    <<"*", "*", "a", "*", "*", " ", "a", "n", "d", " ", "*", "*", "b", "*", "*">>

ExampleTexts ==
    {ExUnclosedBold, ExUnclosedItalic, ExItalicLink, ExBoldItalic, ExItalicBold,
     ExWikiLink, ExTwoBolds}

\* longer runs of stars and letters, and spans written inside spans
StarTexts == Strings({"*", "a"}, MaxLen + 1, MaxStars)
ExDeep == <<"*", "*">> \o LinkSource(<<"*", "a", "*">>, <<"a">>) \o <<"*", "*">>
ExLinkInLink == LinkSource(<<"a">> \o LinkSource(<<"a">>, <<"a">>), <<"a">>)
ExLinkInBoldInLink ==
    LinkSource(<<"*", "*">> \o LinkSource(<<"a">>, <<"a">>) \o <<"*", "*">>,
               <<"a">>)
NestingTexts == StarTexts \cup {ExDeep, ExLinkInLink, ExLinkInBoldInLink}

InlineInputs ==
    Strings(InlineChars, 0, MaxLen) \cup LinkShaped \cup ExampleTexts
    \cup NestingTexts

-----------------------------------------------------------------------------
(* parseInline called on a string *)

InitInline ==
    /\ pc = "parseInline"
    /\ text \in InlineInputs
    /\ tokens = <<>>
    /\ inherited = <<>>
    /\ index = 0
    /\ ops = <<>>
    /\ quill = NoQuill
    /\ dom = NoDom
    /\ event = NoEvent
    /\ detected = FALSE
    /\ window = NoWindow
    /\ dispatch = NoDispatch
    /\ executions = 0

ParseInlineCall ==
    /\ pc = "parseInline"
    /\ tokens' = parseInline(text)
    /\ pc' = "inlineParsed"
    /\ UNCHANGED <<text, inherited, index, ops, quill, dom, event, detected,
                   window, dispatch, executions>>

NextInline == ParseInlineCall

SpecInline == InitInline /\ [][NextInline]_vars

-----------------------------------------------------------------------------
(* Properties of parseInline *)

HasMarkup(s) == \E k \in 1..Len(s) : s[k] \in {"*", "["}

\* C4: a string with no `*` and no `[` parses to exactly one Text token holding
\* the whole string, and the empty string parses to the empty token sequence.
C4_PlainTextIsOneText ==
    (pc = "inlineParsed" /\ ~HasMarkup(text)) =>
        tokens = IF text = <<>> THEN <<>> ELSE <<Text(text)>>

C4_Witness ==
    /\ pc = "inlineParsed"
    /\ text = <<"a", "]", "(", ")", "a">>
    /\ tokens = <<Text(text)>>

\* the iteration from locals st to locals nx appended the character at the
\* cursor to buf and emitted no token
LiteralStep(s, st, nx) ==
    /\ nx.i = st.i + 1
    /\ nx.tokens = st.tokens
    /\ nx.buf = Append(st.buf, At(s, st.i))

\* a `**` at i with no later `**`
UnclosedBoldAt(s, i) ==
    /\ At(s, i) = "*" /\ At(s, i + 1) = "*"
    /\ ~\E p \in (i + 2)..(Len(s) - 2) : At(s, p) = "*" /\ At(s, p + 1) = "*"

\* a single `*` at i with no later `*` that stands alone
UnclosedItalicAt(s, i) ==
    /\ At(s, i) = "*" /\ At(s, i + 1) # "*"
    /\ ~\E p \in (i + 1)..(Len(s) - 1) :
            At(s, p) = "*" /\ At(s, p + 1) # "*" /\ At(s, p - 1) # "*"

\* the number of c in the first n characters of s
Count(s, c, n) == Cardinality({p \in 1..n : s[p] = c})

\* the parentheses of s are balanced: never more closed than opened, and all
\* closed at the end
Balanced(s) ==
    /\ \A n \in 1..Len(s) : Count(s, ")", n) <= Count(s, "(", n)
    /\ Count(s, ")", Len(s)) = Count(s, "(", Len(s))

\* a `[` at i that no later `](` ... `)` with balanced parentheses completes
UnclosedLinkAt(s, i) ==
    /\ At(s, i) = "["
    /\ ~\E c \in (i + 1)..(Len(s) - 1), e \in (i + 3)..(Len(s) - 1) :
            /\ At(s, c) = "]" /\ At(s, c + 1) = "(" /\ At(s, e) = ")"
            /\ c + 2 <= e
            /\ Balanced(slice(s, c + 2, e))

UnclosedAt(s, i) ==
    UnclosedBoldAt(s, i) \/ UnclosedItalicAt(s, i) \/ UnclosedLinkAt(s, i)

\* C5: every character of an unclosed opening delimiter reached by the cursor
\* is emitted as plain text and no token is produced from any part of it: the
\* `[`, the lone `*`, and both stars of an unclosed `**` are literal.
C5_WholeDelimiterLiteral ==
    pc = "inlineParsed" =>
        LET trace == ScanTrace(text, ScanInit)
        IN \A k \in 1..(Len(trace) - 1) :
              /\ UnclosedAt(text, trace[k].i) =>
                    LiteralStep(text, trace[k], trace[k + 1])
              /\ UnclosedBoldAt(text, trace[k].i) =>
                    /\ k + 2 <= Len(trace)
                    /\ LiteralStep(text, trace[k + 1], trace[k + 2])

\* s is [t](u) with t non-empty and free of `]`, u non-empty and balanced
IsLinkSource(s, t, u) ==
    /\ s = LinkSource(t, u)
    /\ Len(t) > 0 /\ \A k \in 1..Len(t) : t[k] # "]"
    /\ Len(u) > 0 /\ Balanced(u)

\* the t and u of a string read as [t](u): t ends at the first `]`
LinkTextOf(s) == slice(s, 1, indexOf(s, <<"]">>, 1))
LinkUrlOf(s) == slice(s, indexOf(s, <<"]">>, 1) + 2, Len(s) - 1)

\* C6: [t](u) with t non-empty and free of `]` and u non-empty with balanced
\* parentheses parses to a single Link whose url is u exactly, inner
\* parentheses included.
C6_LinkUrlVerbatim ==
    (/\ pc = "inlineParsed"
     /\ indexOf(text, <<"]">>, 1) # -1
     /\ IsLinkSource(text, LinkTextOf(text), LinkUrlOf(text))) =>
        /\ Len(tokens) = 1
        /\ tokens[1].type = "link"
        /\ tokens[1].url = LinkUrlOf(text)

C6_Witness ==
    /\ pc = "inlineParsed"
    /\ text = LinkSource(<<"a">>, <<"a", "(", "a", ")">>)
    /\ tokens = <<Link(<<Text(<<"a">>)>>, <<"a", "(", "a", ")">>)>>

\* the source text a token sequence stands for
RECURSIVE Unparse(_)
Unparse(toks) ==
    IF toks = <<>> THEN <<>>
    ELSE LET t == Head(toks)
             src == CASE t.type = "text" -> t.content
                      [] t.type = "bold" ->
                            <<"*", "*">> \o Unparse(t.children) \o <<"*", "*">>
                      [] t.type = "italic" ->
                            <<"*">> \o Unparse(t.children) \o <<"*">>
                      [] t.type = "link" ->
                            LinkSource(Unparse(t.children), t.url)
         IN src \o Unparse(Tail(toks))

\* C7: the tokens cover the input exactly (each span from its opening to its
\* closing delimiter, the cursor resuming right after it) and the children of
\* every span are parseInline of the span's inner text, so nested markup is a
\* tree.
C7_ChildrenAreParsedInnerText ==
    pc = "inlineParsed" =>
        /\ Unparse(tokens) = text
        /\ \A k \in 1..Len(tokens) :
              tokens[k].type # "text" =>
                 tokens[k].children = parseInline(Unparse(tokens[k].children))
        /\ text = ExItalicLink =>
              tokens = <<Italic(<<Link(<<Text(Click)>>, XCom)>>)>>
        /\ text = ExBoldItalic =>
              tokens = <<Bold(<<Text(<<"a", " ">>), Italic(<<Text(<<"b">>)>>),
                               Text(<<" ", "c">>)>>)>>
        /\ text = ExItalicBold =>
              tokens = <<Italic(<<Text(<<"s", "o", "m", "e", " ">>),
                                 Bold(<<Text(<<"b", "o", "l", "d">>)>>),
                                 Text(<<" ", "t", "e", "x", "t">>)>>)>>

C7_Witness ==
    /\ pc = "inlineParsed"
    /\ text = ExItalicLink
    /\ tokens = <<Italic(<<Link(<<Text(Click)>>, XCom)>>)>>

\* every span of toks, at every depth, has children, and every link a url
RECURSIVE SpansNonEmpty(_)
SpansNonEmpty(toks) ==
    \A k \in 1..Len(toks) :
        toks[k].type # "text" =>
            /\ toks[k].children # <<>>
            /\ toks[k].type = "link" => toks[k].url # <<>>
            /\ SpansNonEmpty(toks[k].children)

\* a span opening at i whose inner text or url is empty: `****`, `[](`, `[t]()`
EmptySpanAt(s, i) ==
    \/ slice(s, i, i + 4) = <<"*", "*", "*", "*">>
    \/ slice(s, i, i + 3) = <<"[", "]", "(">>
    \/ /\ At(s, i) = "["
       /\ LET c == indexOf(s, <<"]">>, i + 1)
          IN c # -1 /\ slice(s, c, c + 3) = <<"]", "(", ")">>

\* C8: every Bold, Italic and Link at every depth has children and every Link
\* a url; where a span with empty inner text or empty url opens, no token is
\* emitted and the opening character is plain text.
C8_SpansNonEmpty ==
    pc = "inlineParsed" =>
        /\ SpansNonEmpty(tokens)
        /\ LET trace == ScanTrace(text, ScanInit)
           IN \A k \in 1..(Len(trace) - 1) :
                 EmptySpanAt(text, trace[k].i) =>
                    LiteralStep(text, trace[k], trace[k + 1])

C8_Witness ==
    /\ pc = "inlineParsed"
    /\ text = <<"*", "*", "*", "*">>
    /\ tokens = <<Text(text)>>

\* at every depth of toks no Text is empty and no two Texts are neighbours
RECURSIVE OneTextPerGap(_)
OneTextPerGap(toks) ==
    /\ \A k \in 1..Len(toks) :
          IF toks[k].type = "text"
          THEN Len(toks[k].content) > 0
          ELSE OneTextPerGap(toks[k].children)
    /\ \A k \in 1..(Len(toks) - 1) :
          ~(toks[k].type = "text" /\ toks[k + 1].type = "text")

\* the tokens of toks lie one after the other in s from offset `from` on,
\* each over its own source, the children of a span after its opening
\* delimiter
RECURSIVE InSourceOrder(_, _, _)
InSourceOrder(toks, s, from) ==
    toks = <<>> \/
    LET t == Head(toks)
        src == Unparse(<<t>>)
        opening == IF t.type = "bold" THEN 2 ELSE 1
    IN /\ slice(s, from, from + Len(src)) = src
       /\ t.type # "text" => InSourceOrder(t.children, s, from + opening)
       /\ InSourceOrder(Tail(toks), s, from + Len(src))

\* C22: in every token sequence parseInline returns, at every nesting level,
\* the tokens are in source order, every Text has content, and no two Texts
\* are adjacent: the plain characters between two spans, before the first or
\* after the last, are one Text; `**a** and **b**` gives
\* [Bold[Text "a"], Text " and ", Bold[Text "b"]].
C22_OneTextBetweenSpans ==
    pc = "inlineParsed" =>
        /\ InSourceOrder(tokens, text, 0)
        /\ Len(Unparse(tokens)) = Len(text)
        /\ OneTextPerGap(tokens)
        /\ text = ExTwoBolds =>
              tokens = <<Bold(<<Text(<<"a">>)>>),
                         Text(<<" ", "a", "n", "d", " ">>),
                         Bold(<<Text(<<"b">>)>>)>>

C22_Witness ==
    /\ pc = "inlineParsed"
    /\ text = ExTwoBolds
    /\ Len(tokens) = 3
    /\ tokens[2] = Text(<<" ", "a", "n", "d", " ">>)
    /\ tokens[1].type = "bold" /\ tokens[3].type = "bold"

-----------------------------------------------------------------------------
(* The Delta compiler of page.ts *)

\* { ...m, k: v }
Put(m, k, v) == [a \in DOMAIN m \cup {k} |-> IF a = k THEN v ELSE m[a]]

\* {}
NoAttributes == <<>>

\* faulty variant: a link replaces the inherited attributes
RECURSIVE pushInlineOpsBug(_, _, _)
pushInlineOpsBug(o, toks, inh) ==
    IF toks = <<>> THEN o
    ELSE LET token == Head(toks)
             pushed ==
                CASE token.type = "bold" ->
                        pushInlineOpsBug(o, token.children, Put(inh, "bold", TRUE))
                  [] token.type = "italic" ->
                        pushInlineOpsBug(o, token.children, Put(inh, "italic", TRUE))
                  [] token.type = "link" ->
                        pushInlineOpsBug(o, token.children,
                                         Put(NoAttributes, "link", token.url))
                  [] OTHER ->
                        Append(o, IF DOMAIN inh # {}
                                  THEN [insert |-> token.content, attributes |-> inh]
                                  ELSE [insert |-> token.content])
         IN pushInlineOpsBug(pushed, Tail(toks), inh)

\* pushInlineOps(ops, tokens, inherited): the ops array after the call
RECURSIVE pushInlineOps(_, _, _)
pushInlineOps(o, toks, inh) ==
    IF toks = <<>> THEN o
    ELSE LET token == Head(toks)
             pushed ==
                CASE token.type = "bold" ->
                        pushInlineOps(o, token.children, Put(inh, "bold", TRUE))
                  [] token.type = "italic" ->
                        pushInlineOps(o, token.children, Put(inh, "italic", TRUE))
                  [] token.type = "link" ->
                        pushInlineOps(o, token.children, Put(inh, "link", token.url))
                  [] OTHER ->
                        Append(o, IF DOMAIN inh # {}
                                  THEN [insert |-> token.content, attributes |-> inh]
                                  ELSE [insert |-> token.content])
         IN pushInlineOps(pushed, Tail(toks), inh)

-----------------------------------------------------------------------------
(* pushInlineOps called on an inline token tree *)

MaxNodes == 4

LeafTexts == {<<"x">>, <<"y">>}
LinkUrls == {<<"u">>, <<"v">>}

\* the spans around a non-empty children list
Wrappers(children) ==
    {Bold(children), Italic(children)} \cup {Link(children, u) : u \in LinkUrls}

\* the token lists of exactly n tokens in all, every depth counted
RECURSIVE TokenLists(_), TokensOfSize(_)
TokensOfSize(n) ==
    IF n = 1 THEN {Text(c) : c \in LeafTexts}
    ELSE UNION {Wrappers(children) : children \in TokenLists(n - 1)}
TokenLists(n) ==
    IF n = 0 THEN {<<>>}
    ELSE UNION {{<<t>> \o rest : t \in TokensOfSize(k), rest \in TokenLists(n - k)} :
                  k \in 1..n}

InlineTrees == UNION {TokenLists(n) : n \in 0..MaxNodes}

\* the attribute mappings pushInlineOps is entered with
InheritedInputs ==
    {NoAttributes, [bold |-> TRUE], [link |-> <<"v">>],
     [italic |-> TRUE, link |-> <<"u">>]}

InitCompile ==
    /\ pc = "pushInlineOps"
    /\ text = <<>>
    /\ tokens \in InlineTrees
    /\ inherited \in InheritedInputs
    /\ index = 0
    /\ ops = <<>>
    /\ quill = NoQuill
    /\ dom = NoDom
    /\ event = NoEvent
    /\ detected = FALSE
    /\ window = NoWindow
    /\ dispatch = NoDispatch
    /\ executions = 0

PushInlineOpsCall ==
    /\ pc = "pushInlineOps"
    /\ ops' = pushInlineOps(ops, tokens, inherited)
    /\ pc' = "inlinePushed"
    /\ UNCHANGED <<text, tokens, inherited, index, quill, dom, event, detected,
                   window, dispatch, executions>>

NextCompile == PushInlineOpsCall

SpecCompile == InitCompile /\ [][NextCompile]_vars

\* the Text leaves of toks in source order, each with its ancestors from the
\* outermost to the innermost
RECURSIVE Leaves(_, _)
Leaves(toks, path) ==
    IF toks = <<>> THEN <<>>
    ELSE LET t == Head(toks)
         IN (IF t.type = "text" THEN <<[content |-> t.content, path |-> path]>>
             ELSE Leaves(t.children, Append(path, t)))
            \o Leaves(Tail(toks), path)

\* the attributes of a leaf under the ancestors path, entered with inh: one key
\* per kind of ancestor, the link of the innermost Link, the rest as inherited
LeafAttributes(inh, path) ==
    LET kinds == {path[k].type : k \in 1..Len(path)}
        links == {k \in 1..Len(path) : path[k].type = "link"}
        keys == DOMAIN inh \cup kinds
    IN [a \in keys |->
          IF a \in kinds
          THEN IF a = "link"
               THEN path[CHOOSE k \in links : \A m \in links : m <= k].url
               ELSE TRUE
          ELSE inh[a]]

\* C1: pushInlineOps emits exactly one Insert per Text leaf, in source order,
\* carrying the inherited mapping plus bold, italic and link for the Bold,
\* Italic and Link ancestors of the leaf (the innermost Link's url), and no
\* attributes field when that mapping is empty.
C1_AttributesCompose ==
    pc = "inlinePushed" =>
        LET leaves == Leaves(tokens, <<>>)
        IN /\ Len(ops) = Len(leaves)
           /\ \A k \in 1..Len(leaves) :
                 LET attrs == LeafAttributes(inherited, leaves[k].path)
                 IN /\ ops[k].insert = leaves[k].content
                    /\ IF DOMAIN attrs = {}
                       THEN DOMAIN ops[k] = {"insert"}
                       ELSE /\ DOMAIN ops[k] = {"insert", "attributes"}
                            /\ ops[k].attributes = attrs
           /\ (/\ tokens = <<Italic(<<Link(<<Text(<<"x">>)>>, <<"u">>)>>)>>
               /\ inherited = NoAttributes) =>
                 ops = <<[insert |-> <<"x">>,
                          attributes |-> [italic |-> TRUE, link |-> <<"u">>]]>>

C1_Witness ==
    /\ pc = "inlinePushed"
    /\ tokens = <<Italic(<<Link(<<Text(<<"x">>)>>, <<"u">>)>>)>>
    /\ inherited = NoAttributes
    /\ ops = <<[insert |-> <<"x">>,
                attributes |-> [italic |-> TRUE, link |-> <<"u">>]]>>

-----------------------------------------------------------------------------
(* The tokens of parseInline compiled by pushInlineOps *)

\* no span of toks, at any depth, has the type of a span it lies in or of
\* one in `above`
RECURSIVE NoSelfNesting(_, _)
NoSelfNesting(toks, above) ==
    \A k \in 1..Len(toks) :
       toks[k].type # "text" =>
          /\ toks[k].type \notin above
          /\ NoSelfNesting(toks[k].children, above \cup {toks[k].type})

Max(a, b) == IF a >= b THEN a ELSE b

\* the greatest number of spans one inside the other in toks
RECURSIVE SpanDepth(_)
SpanDepth(toks) ==
    IF toks = <<>> THEN 0
    ELSE Max(IF Head(toks).type = "text" THEN 0
             ELSE 1 + SpanDepth(Head(toks).children),
             SpanDepth(Tail(toks)))

\* for every Text of toks in order, the number of spans it lies in
RECURSIVE LeafDepths(_, _)
LeafDepths(toks, d) ==
    IF toks = <<>> THEN <<>>
    ELSE (IF Head(toks).type = "text" THEN <<d>>
          ELSE LeafDepths(Head(toks).children, d + 1))
         \o LeafDepths(Tail(toks), d)

\* no span of toks sets an attribute that `inh`, or a span around it, holds
RECURSIVE NeverOverwrites(_, _)
NeverOverwrites(toks, inh) ==
    \A k \in 1..Len(toks) :
       toks[k].type # "text" =>
          /\ toks[k].type \notin DOMAIN inh
          /\ NeverOverwrites(toks[k].children, Put(inh, toks[k].type, TRUE))

AttributeCount(op) ==
    IF "attributes" \in DOMAIN op THEN Cardinality(DOMAIN op.attributes) ELSE 0

\* C23: in the result of parseInline no token has a descendant, at any
\* depth, of its own type (no Bold in a Bold, no Italic in an Italic, no Link
\* in a Link); so spans nest at most 3 deep, and in the compiled operations
\* no attribute set by an outer span is overwritten by an inner one: every
\* Insert carries one attribute for each span around its Text.
C23_NoSelfNesting ==
    pc = "inlineParsed" =>
        LET compiled == pushInlineOps(<<>>, tokens, NoAttributes)
            depths == LeafDepths(tokens, 0)
        IN /\ NoSelfNesting(tokens, {})
           /\ SpanDepth(tokens) <= 3
           /\ NeverOverwrites(tokens, NoAttributes)
           /\ Len(compiled) = Len(depths)
           /\ \A k \in 1..Len(compiled) :
                 AttributeCount(compiled[k]) = depths[k]

\* a Bold around a Link around an Italic: three spans deep
C23_Witness ==
    /\ pc = "inlineParsed"
    /\ text = ExDeep
    /\ tokens = <<Bold(<<Link(<<Italic(<<Text(<<"a">>)>>)>>, <<"a">>)>>)>>
    /\ SpanDepth(tokens) = 3
    /\ pushInlineOps(<<>>, tokens, NoAttributes) =
          <<[insert |-> <<"a">>,
             attributes |-> [bold |-> TRUE, link |-> <<"a">>, italic |-> TRUE]]>>

-----------------------------------------------------------------------------
(* parseMarkdown: the line-level scanner *)

Paragraph(content) == [type |-> "paragraph", content |-> content]
BulletList(items) == [type |-> "bulletList", items |-> items]
OrderedList(items) == [type |-> "orderedList", items |-> items]
Blockquote(content) == [type |-> "blockquote", content |-> content]
Newline == [type |-> "newline"]
ListItem(content, indent) == [content |-> content, indent |-> indent]

\* faulty variant: a split that yields no trailing empty string
RECURSIVE SplitBug(_)
SplitBug(s) ==
    LET p == indexOf(s, <<"\n">>, 0)
    IN IF p = -1 THEN (IF s = <<>> THEN <<>> ELSE <<s>>)
       ELSE <<slice(s, 0, p)>> \o SplitBug(sliceFrom(s, p + 1))

\* markdown.split('\n')
RECURSIVE Split(_)
Split(s) ==
    LET p == indexOf(s, <<"\n">>, 0)
    IN IF p = -1 THEN <<s>>
       ELSE <<slice(s, 0, p)>> \o Split(sliceFrom(s, p + 1))

\* the characters \s matches, \d matches, and . does not match
WhiteSpace == {" ", "\t", "\r"}
Digits == {"0", "1", "2", "3", "4", "5", "6", "7", "8", "9"}
LineTerminators == {"\n", "\r"}

\* the length of the longest run of characters of S in line from position n
RECURSIVE RunLength(_, _, _)
RunLength(line, n, S) ==
    IF At(line, n) \in S THEN 1 + RunLength(line, n + 1, S) ELSE 0

\* (.*)$ from position n: the rest of the line, if . matches all of it
RestOfLine(line, n) ==
    LET rest == sliceFrom(line, n)
    IN IF \A k \in 1..Len(rest) : rest[k] \notin LineTerminators
       THEN [ok |-> TRUE, content |-> rest]
       ELSE NoMatch

\* line.match(/^(\s*)([-*]) (.*)$/): m[1] and m[3]
MatchBullet(line) ==
    LET ws == RunLength(line, 0, WhiteSpace)
        rest == RestOfLine(line, ws + 2)
    IN IF At(line, ws) \in {"-", "*"} /\ At(line, ws + 1) = " " /\ rest.ok
       THEN [ok |-> TRUE, ws |-> slice(line, 0, ws), content |-> rest.content]
       ELSE NoMatch

\* line.match(/^(\s*)(\d+)\. (.*)$/): m[1] and m[3]
MatchOrdered(line) ==
    LET ws == RunLength(line, 0, WhiteSpace)
        digits == RunLength(line, ws, Digits)
        rest == RestOfLine(line, ws + digits + 2)
    IN IF /\ digits > 0
          /\ At(line, ws + digits) = "."
          /\ At(line, ws + digits + 1) = " "
          /\ rest.ok
       THEN [ok |-> TRUE, ws |-> slice(line, 0, ws), content |-> rest.content]
       ELSE NoMatch

\* line.match(/^> (.*)$/): m[1]
MatchQuote(line) ==
    LET rest == RestOfLine(line, 2)
    IN IF At(line, 0) = ">" /\ At(line, 1) = " " /\ rest.ok
       THEN [ok |-> TRUE, content |-> rest.content]
       ELSE NoMatch

\* the match of a list line of the given kind
MatchList(kind, line) ==
    IF kind = "bulletList" THEN MatchBullet(line) ELSE MatchOrdered(line)

\* faulty variant: one line per list, the loop left after its first item
CollectItemsBug(kind, lines, i, items) ==
    LET m == MatchList(kind, At(lines, i))
    IN [i |-> i + 1,
        items |-> Append(items, ListItem(parseInline(m.content), Len(m.ws) \div 2))]

\* faulty variant: the indent is the whitespace length, not halved
RECURSIVE CollectItemsWidth(_, _, _, _)
CollectItemsWidth(kind, lines, i, items) ==
    IF i < Len(lines) /\ MatchList(kind, At(lines, i)).ok
    THEN LET m == MatchList(kind, At(lines, i))
         IN CollectItemsWidth(kind, lines, i + 1,
                              Append(items, ListItem(parseInline(m.content),
                                                     Len(m.ws))))
    ELSE [i |-> i, items |-> items]

\* the inner while loop of a list branch, from line i with the items so far:
\* the line cursor and the items at its exit
RECURSIVE CollectItems(_, _, _, _)
CollectItems(kind, lines, i, items) ==
    IF i < Len(lines) /\ MatchList(kind, At(lines, i)).ok
    THEN LET m == MatchList(kind, At(lines, i))
             indent == Len(m.ws) \div 2
         IN CollectItems(kind, lines, i + 1,
                         Append(items, ListItem(parseInline(m.content), indent)))
    ELSE [i |-> i, items |-> items]

\* faulty variant: the content of a blockquote kept as one plain text
BlockStepRawQuote(lines, st) ==
    LET line == At(lines, st.i)
    IN IF MatchBullet(line).ok
       THEN LET r == CollectItems("bulletList", lines, st.i, <<>>)
            IN [i |-> r.i, tokens |-> Append(st.tokens, BulletList(r.items))]
       ELSE IF MatchOrdered(line).ok
       THEN LET r == CollectItems("orderedList", lines, st.i, <<>>)
            IN [i |-> r.i, tokens |-> Append(st.tokens, OrderedList(r.items))]
       ELSE IF MatchQuote(line).ok
       THEN [i |-> st.i + 1,
             tokens |-> Append(st.tokens,
                               Blockquote(<<Text(MatchQuote(line).content)>>))]
       ELSE IF line = <<>>
       THEN [i |-> st.i + 1, tokens |-> Append(st.tokens, Newline)]
       ELSE [i |-> st.i + 1,
             tokens |-> LET withParagraph ==
                               Append(st.tokens, Paragraph(parseInline(line)))
                        IN IF st.i < Len(lines) - 1
                           THEN Append(withParagraph, Newline)
                           ELSE withParagraph]

\* faulty variant: a Newline after every paragraph, the last line included
BlockStepNewlineAlways(lines, st) ==
    LET line == At(lines, st.i)
    IN IF MatchBullet(line).ok
       THEN LET r == CollectItems("bulletList", lines, st.i, <<>>)
            IN [i |-> r.i, tokens |-> Append(st.tokens, BulletList(r.items))]
       ELSE IF MatchOrdered(line).ok
       THEN LET r == CollectItems("orderedList", lines, st.i, <<>>)
            IN [i |-> r.i, tokens |-> Append(st.tokens, OrderedList(r.items))]
       ELSE IF MatchQuote(line).ok
       THEN [i |-> st.i + 1,
             tokens |-> Append(st.tokens,
                               Blockquote(parseInline(MatchQuote(line).content)))]
       ELSE IF line = <<>>
       THEN [i |-> st.i + 1, tokens |-> Append(st.tokens, Newline)]
       ELSE [i |-> st.i + 1,
             tokens |-> Append(Append(st.tokens, Paragraph(parseInline(line))),
                               Newline)]

\* one iteration of the outer while loop, from the locals st = (i, tokens)
BlockStep(lines, st) ==
    LET line == At(lines, st.i)
    IN IF MatchBullet(line).ok
       THEN LET r == CollectItems("bulletList", lines, st.i, <<>>)
            IN [i |-> r.i, tokens |-> Append(st.tokens, BulletList(r.items))]
       ELSE IF MatchOrdered(line).ok
       THEN LET r == CollectItems("orderedList", lines, st.i, <<>>)
            IN [i |-> r.i, tokens |-> Append(st.tokens, OrderedList(r.items))]
       ELSE IF MatchQuote(line).ok
       THEN [i |-> st.i + 1,
             tokens |-> Append(st.tokens,
                               Blockquote(parseInline(MatchQuote(line).content)))]
       ELSE IF line = <<>>
       THEN [i |-> st.i + 1, tokens |-> Append(st.tokens, Newline)]
       ELSE [i |-> st.i + 1,
             tokens |-> LET withParagraph ==
                               Append(st.tokens, Paragraph(parseInline(line)))
                        IN IF st.i < Len(lines) - 1
                           THEN Append(withParagraph, Newline)
                           ELSE withParagraph]

\* the outer while loop
RECURSIVE BlockLoop(_, _)
BlockLoop(lines, st) ==
    IF st.i < Len(lines) THEN BlockLoop(lines, BlockStep(lines, st)) ELSE st

parseMarkdown(markdown) ==
    BlockLoop(Split(markdown), [i |-> 0, tokens |-> <<>>]).tokens

-----------------------------------------------------------------------------
(* buildDelta and countInsertedLength *)

\* faulty variant: the indent attribute written for every item
RECURSIVE PushItemsIndentAlways(_, _, _)
PushItemsIndentAlways(o, listType, items) ==
    IF items = <<>> THEN o
    ELSE LET item == Head(items)
         IN PushItemsIndentAlways(
                Append(pushInlineOps(o, item.content, NoAttributes),
                       [insert |-> <<"\n">>,
                        attributes |-> [list |-> listType, indent |-> item.indent]]),
                listType, Tail(items))

\* the inner for loop of the list case: the ops array after the items
RECURSIVE PushItems(_, _, _)
PushItems(o, listType, items) ==
    IF items = <<>> THEN o
    ELSE LET item == Head(items)
             attrs == IF item.indent > 0
                      THEN [list |-> listType, indent |-> item.indent]
                      ELSE [list |-> listType]
         IN PushItems(Append(pushInlineOps(o, item.content, NoAttributes),
                             [insert |-> <<"\n">>, attributes |-> attrs]),
                      listType, Tail(items))

\* the switch of buildDelta on one token: the ops array after it
\* faulty variant: a newline token pushes no operation
PushTokenNoNewline(o, token) ==
    CASE token.type = "paragraph" -> pushInlineOps(o, token.content, NoAttributes)
      [] token.type \in {"bulletList", "orderedList"} ->
            PushItems(o, IF token.type = "bulletList" THEN "bullet" ELSE "ordered",
                      token.items)
      [] token.type = "blockquote" ->
            Append(pushInlineOps(o, token.content, NoAttributes),
                   [insert |-> <<"\n">>, attributes |-> [blockquote |-> TRUE]])
      [] OTHER -> o

PushToken(o, token) ==
    CASE token.type = "paragraph" -> pushInlineOps(o, token.content, NoAttributes)
      [] token.type = "newline" -> Append(o, [insert |-> <<"\n">>])
      [] token.type \in {"bulletList", "orderedList"} ->
            PushItems(o, IF token.type = "bulletList" THEN "bullet" ELSE "ordered",
                      token.items)
      [] token.type = "blockquote" ->
            Append(pushInlineOps(o, token.content, NoAttributes),
                   [insert |-> <<"\n">>, attributes |-> [blockquote |-> TRUE]])
      [] OTHER -> o

RECURSIVE PushTokens(_, _)
PushTokens(o, toks) ==
    IF toks = <<>> THEN o ELSE PushTokens(PushToken(o, Head(toks)), Tail(toks))

\* faulty variant: the retain pushed whatever the offset
buildDeltaBug(toks, startIndex) ==
    PushTokens(<<[retain |-> startIndex]>>, toks)

\* buildDelta(tokens, startIndex).ops
buildDelta(toks, startIndex) ==
    PushTokens(IF startIndex > 0 THEN <<[retain |-> startIndex]>> ELSE <<>>, toks)

\* typeof op.insert === "string"
IsStringInsert(op) == "insert" \in DOMAIN op

\* faulty variant: the retain counted as inserted
RECURSIVE countInsertedLengthBug(_)
countInsertedLengthBug(o) ==
    IF o = <<>> THEN 0
    ELSE (IF IsStringInsert(Head(o)) THEN Len(Head(o).insert) ELSE Head(o).retain)
         + countInsertedLengthBug(Tail(o))

\* countInsertedLength(ops): the reduce, from the left
RECURSIVE countInsertedLength(_)
countInsertedLength(o) ==
    IF o = <<>> THEN 0
    ELSE (IF IsStringInsert(Head(o)) THEN Len(Head(o).insert) ELSE 0)
         + countInsertedLength(Tail(o))

-----------------------------------------------------------------------------
(* parseMarkdown and buildDelta called on a markdown text *)

MaxLines == 2
MaxIndex == 2

\* lines of every kind the block scanner tells apart, and near misses of each
BlockLines ==
    { <<>>,
      <<"a">>,
      <<"-", " ", "a">>,
      <<"*", " ", "a">>,
      <<" ", " ", "-", " ", "a">>,
      <<" ", " ", " ", " ", "-", " ", "a">>,
      <<"\t", "*", " ", "a">>,
      <<"-", "a">>,
      <<"-", " ", " ", "*", "*", "a", "*", "*">>,
      <<"-", " ", "a", "\r">>,
      <<"1", ".", " ", "a">>,
      <<" ", " ", " ", "1", "2", ".", " ", "a">>,
      <<"1", ".", "a">>,
      <<">", " ", "a">>,
      <<">", " ", "*", "a", "*">>,
      <<" ", ">", " ", "a">> }

\* lines.join('\n')
RECURSIVE Join(_)
Join(lines) ==
    IF Len(lines) = 1 THEN lines[1]
    ELSE lines[1] \o <<"\n">> \o Join(Tail(lines))

\* texts of three lines: empty lines only; a bullet run of two markers before
\* an ordered line; bullets at three depths; bullets and an ordered item at
\* depths 0, 2, 1; formatted content in an item and in quotes; paragraphs
\* around an empty line; a paragraph between two list lines
ExEmptyLines == <<"\n", "\n">>
ExMixedRun ==
    <<"*", " ", "a", "\n", " ", " ", "-", " ", "a", "\n", "1", ".", " ", "a">>
ExNested ==
    <<"-", " ", "a", "\n", " ", " ", "-", " ", "a", "\n",
      " ", " ", " ", " ", "-", " ", "a">>
ExIndents ==
    <<"-", " ", "a", "\n", " ", " ", " ", " ", "-", " ", "a", "\n",
      " ", " ", " ", "1", "2", ".", " ", "a">>
ExFormatted ==
    <<"-", " ", " ", "*", "*", "a", "*", "*", "\n",
      ">", " ", "*", "a", "*", "\n", ">", " ", "a">>
ExParagraphs == <<"a", "\n", "\n", "a">>
ExSplitList == <<"-", " ", "a", "\n", "a", "\n", "-", " ", "a">>

ExampleMarkdown ==
    {ExEmptyLines, ExMixedRun, ExNested, ExIndents, ExFormatted, ExParagraphs,
     ExSplitList}

MarkdownInputs ==
    {Join(lines) : lines \in Strings(BlockLines, 1, MaxLines)} \cup ExampleMarkdown

InitDelta ==
    /\ pc = "parseMarkdown"
    /\ text \in MarkdownInputs
    /\ tokens = <<>>
    /\ inherited = NoAttributes
    /\ index = 0
    /\ ops = <<>>
    /\ quill = NoQuill
    /\ dom = NoDom
    /\ event = NoEvent
    /\ detected = FALSE
    /\ window = NoWindow
    /\ dispatch = NoDispatch
    /\ executions = 0

ParseMarkdownCall ==
    /\ pc = "parseMarkdown"
    /\ tokens' = parseMarkdown(text)
    /\ pc' = "buildDelta"
    /\ UNCHANGED <<text, inherited, index, ops, quill, dom, event, detected,
                   window, dispatch, executions>>

BuildDeltaCall ==
    /\ pc = "buildDelta"
    /\ \E startIndex \in 0..MaxIndex :
          /\ index' = startIndex
          /\ ops' = buildDelta(tokens, startIndex)
    /\ pc' = "built"
    /\ UNCHANGED <<text, tokens, inherited, quill, dom, event, detected,
                   window, dispatch, executions>>

NextDelta == ParseMarkdownCall \/ BuildDeltaCall

SpecDelta == InitDelta /\ [][NextDelta]_vars

\* the characters of the texts parsed here
Characters == UNION {{line[k] : k \in 1..Len(line)} : line \in BlockLines} \cup {"\n"}

\* C2: the list buildDelta returns holds a Retain only when the offset k is
\* positive, and then exactly one, Retain{count: k}, as its first element;
\* every other element is an Insert of a string; nothing deletes.
C2_RetainOnlyFirst ==
    pc = "built" =>
        /\ index > 0 => (ops # <<>> /\ ops[1] = [retain |-> index])
        /\ \A k \in 1..Len(ops) :
              /\ "delete" \notin DOMAIN ops[k]
              /\ IF "retain" \in DOMAIN ops[k]
                 THEN k = 1 /\ index > 0 /\ ops[k] = [retain |-> index]
                 ELSE /\ "insert" \in DOMAIN ops[k]
                      /\ DOMAIN ops[k] \subseteq {"insert", "attributes"}
                      /\ ops[k].insert \in Seq(Characters)

C2_Witness ==
    /\ pc = "built"
    /\ index = 2
    /\ Len(ops) > 2
    /\ ops[1] = [retain |-> 2]
    /\ \E k \in 2..Len(ops) : "attributes" \in DOMAIN ops[k]

\* the text is newline characters only (none included)
OnlyNewlines(s) == \A k \in 1..Len(s) : s[k] = "\n"

\* C9: parseMarkdown of the empty string is [Newline], and of n >= 1 newline
\* characters it is n + 1 Newline tokens and nothing else.
C9_NewlinesOnly ==
    (pc # "parseMarkdown" /\ OnlyNewlines(text)) =>
        /\ Len(tokens) = Len(text) + 1
        /\ \A k \in 1..Len(tokens) : tokens[k] = Newline

C9_Witness ==
    /\ pc = "buildDelta"
    /\ text = <<"\n", "\n">>
    /\ tokens = <<Newline, Newline, Newline>>

\* the list kind of a line, read off its characters: bulletList for optional
\* whitespace, `-` or `*`, a space; orderedList for optional whitespace,
\* digits, `.`, a space; in both the rest of the line is free of carriage
\* returns
LineKind(line) ==
    LET ws == Cardinality({n \in 1..Len(line) :
                             \A k \in 1..n : line[k] \in WhiteSpace})
        ds == Cardinality({n \in 1..(Len(line) - ws) :
                             \A k \in 1..n : line[ws + k] \in Digits})
    IN IF \E k \in 1..Len(line) : line[k] \in LineTerminators /\ k > ws
       THEN [kind |-> "other"]
       ELSE IF At(line, ws) \in {"-", "*"} /\ At(line, ws + 1) = " "
       THEN [kind |-> "bulletList", content |-> sliceFrom(line, ws + 2)]
       ELSE IF ds > 0 /\ At(line, ws + ds) = "." /\ At(line, ws + ds + 1) = " "
       THEN [kind |-> "orderedList", content |-> sliceFrom(line, ws + ds + 2)]
       ELSE [kind |-> "other"]

\* the maximal runs of list lines of one kind among lines[from..], in order:
\* each with its kind and its first and last line
RECURSIVE ListRuns(_, _)
ListRuns(lines, from) ==
    IF from > Len(lines) THEN <<>>
    ELSE LET kind == LineKind(lines[from]).kind
             last == CHOOSE e \in from..Len(lines) :
                        /\ \A k \in from..e : LineKind(lines[k]).kind = kind
                        /\ e = Len(lines) \/ LineKind(lines[e + 1]).kind # kind
         IN IF kind = "other" THEN ListRuns(lines, from + 1)
            ELSE <<[kind |-> kind, first |-> from, last |-> last]>>
                 \o ListRuns(lines, last + 1)

IsListToken(t) == t.type \in {"bulletList", "orderedList"}

\* C10: every maximal run of bullet lines gives exactly one BulletList with one
\* item per line in source order, every maximal run of ordered lines exactly
\* one OrderedList; no two adjacent tokens are lists of the same kind and no
\* list is empty.
C10_OneListPerRun ==
    pc # "parseMarkdown" =>
        LET lines == Split(text)
            runs == ListRuns(lines, 1)
            lists == SelectSeq(tokens, IsListToken)
        IN /\ Len(lists) = Len(runs)
           /\ \A r \in 1..Len(runs) :
                 /\ lists[r].type = runs[r].kind
                 /\ Len(lists[r].items) = runs[r].last - runs[r].first + 1
                 /\ \A j \in 1..Len(lists[r].items) :
                       lists[r].items[j].content =
                          parseInline(LineKind(lines[runs[r].first + j - 1]).content)
           /\ \A k \in 1..Len(tokens) :
                 IsListToken(tokens[k]) =>
                    /\ tokens[k].items # <<>>
                    /\ k < Len(tokens) => tokens[k + 1].type # tokens[k].type

\* two bullet lines with different markers and indentation, then an ordered
\* line
C10_Witness ==
    /\ pc = "buildDelta"
    /\ text = <<"*", " ", "a", "\n", " ", " ", "-", " ", "a", "\n",
                "1", ".", " ", "a">>
    /\ tokens = <<BulletList(<<ListItem(<<Text(<<"a">>)>>, 0),
                               ListItem(<<Text(<<"a">>)>>, 1)>>),
                  OrderedList(<<ListItem(<<Text(<<"a">>)>>, 0)>>)>>

\* the length of the run of whitespace a line starts with
LeadingWhitespace(line) ==
    Cardinality({n \in 1..Len(line) : \A k \in 1..n : line[k] \in WhiteSpace})

\* C11: every list item parseMarkdown produces, bullet or ordered, has indent
\* floor(L / 2) for L the length of its line's leading whitespace run, never
\* negative; `- a`, `  - a`, `    - a` on consecutive lines give one
\* BulletList whose items have indent 0, 1, 2.
C11_IndentIsHalfWhitespace ==
    pc # "parseMarkdown" =>
        LET lines == Split(text)
            runs == ListRuns(lines, 1)
            lists == SelectSeq(tokens, IsListToken)
        IN /\ Len(lists) = Len(runs)
           /\ \A r \in 1..Len(lists) :
                 \A j \in 1..Len(lists[r].items) :
                    LET L == LeadingWhitespace(lines[runs[r].first + j - 1])
                        indent == lists[r].items[j].indent
                    IN /\ indent \in Nat
                       /\ 2 * indent <= L
                       /\ L < 2 * indent + 2
           /\ text = <<"-", " ", "a", "\n", " ", " ", "-", " ", "a", "\n",
                       " ", " ", " ", " ", "-", " ", "a">>
                 => tokens = <<BulletList(<<ListItem(<<Text(<<"a">>)>>, 0),
                                            ListItem(<<Text(<<"a">>)>>, 1),
                                            ListItem(<<Text(<<"a">>)>>, 2)>>)>>

\* three bullet lines indented by 0, 2 and 4 spaces, parsed
C11_Witness ==
    /\ pc = "buildDelta"
    /\ text = <<"-", " ", "a", "\n", " ", " ", "-", " ", "a", "\n",
                " ", " ", " ", " ", "-", " ", "a">>
    /\ Len(tokens) = 1
    /\ tokens[1].type = "bulletList"
    /\ <<tokens[1].items[1].indent, tokens[1].items[2].indent,
          tokens[1].items[3].indent>> = <<0, 1, 2>>

\* the Insert that ends a list item: a newline carrying the list kind, and the
\* indent when it is positive
ListTerminator(listType, indent) ==
    IF indent = 0
    THEN [insert |-> <<"\n">>, attributes |-> [list |-> listType]]
    ELSE [insert |-> <<"\n">>,
          attributes |-> [list |-> listType, indent |-> indent]]

\* what a list token is to give: item by item, the inline ops then the
\* terminator
RECURSIVE ListOps(_, _)
ListOps(listType, items) ==
    IF items = <<>> THEN <<>>
    ELSE pushInlineOps(<<>>, items[1].content, NoAttributes)
         \o <<ListTerminator(listType, items[1].indent)>>
         \o ListOps(listType, Tail(items))

\* the ops of a token list, each list token giving ListOps
RECURSIVE TokenOps(_)
TokenOps(toks) ==
    IF toks = <<>> THEN <<>>
    ELSE (CASE toks[1].type = "bulletList" -> ListOps("bullet", toks[1].items)
            [] toks[1].type = "orderedList" -> ListOps("ordered", toks[1].items)
            [] OTHER -> PushToken(<<>>, toks[1]))
         \o TokenOps(Tail(toks))

\* the ops that carry a list attribute
IsListOp(op) == "attributes" \in DOMAIN op /\ "list" \in DOMAIN op.attributes

\* the items of all the list tokens, in order
RECURSIVE AllItems(_)
AllItems(toks) ==
    IF toks = <<>> THEN <<>>
    ELSE (IF IsListToken(toks[1]) THEN toks[1].items ELSE <<>>)
         \o AllItems(Tail(toks))

\* C12: for every BulletList or OrderedList token buildDelta emits for each
\* item, in order, the item's inline ops followed by exactly one Insert of a
\* newline whose attributes hold list: "bullet" or list: "ordered"; that
\* Insert has no indent key when the item's indent is 0 and the item's exact
\* indent when it is greater than 0.
C12_ListItemOps ==
    pc = "built" =>
        LET body == IF index > 0 THEN Tail(ops) ELSE ops
            terminators == SelectSeq(body, IsListOp)
            items == AllItems(tokens)
        IN /\ body = TokenOps(tokens)
           /\ Len(terminators) = Len(items)
           /\ \A k \in 1..Len(items) :
                 /\ terminators[k].insert = <<"\n">>
                 /\ terminators[k].attributes.list \in {"bullet", "ordered"}
                 /\ IF items[k].indent = 0
                    THEN DOMAIN terminators[k].attributes = {"list"}
                    ELSE /\ DOMAIN terminators[k].attributes = {"list", "indent"}
                         /\ terminators[k].attributes.indent = items[k].indent

\* a bullet item of indent 0, one of indent 2 and an ordered item of indent 1,
\* compiled
C12_Witness ==
    /\ pc = "built"
    /\ text = <<"-", " ", "a", "\n", " ", " ", " ", " ", "-", " ", "a", "\n",
                " ", " ", " ", "1", "2", ".", " ", "a">>
    /\ SelectSeq(ops, IsListOp) =
          << [insert |-> <<"\n">>, attributes |-> [list |-> "bullet"]],
             [insert |-> <<"\n">>, attributes |-> [list |-> "bullet", indent |-> 2]],
             [insert |-> <<"\n">>, attributes |-> [list |-> "ordered", indent |-> 1]] >>

\* a blockquote line: `>`, a space, and a rest free of carriage returns
IsQuoteLine(line) ==
    /\ Len(line) >= 2
    /\ line[1] = ">" /\ line[2] = " "
    /\ \A k \in 3..Len(line) : line[k] \notin LineTerminators

IsListLine(line) == LineKind(line).kind # "other"

IsBlockquote(t) == t.type = "blockquote"

\* C13: the content of every list item is parseInline of its line's text
\* after the marker and the one space that follows it, the content of every
\* Blockquote is parseInline of its line's text after `> `, and every
\* blockquote line gives a Blockquote token of its own.
C13_ContentIsInlineParsed ==
    pc # "parseMarkdown" =>
        LET lines == Split(text)
            listLines == SelectSeq(lines, IsListLine)
            quoteLines == SelectSeq(lines, IsQuoteLine)
            items == AllItems(tokens)
            quotes == SelectSeq(tokens, IsBlockquote)
        IN /\ Len(items) = Len(listLines)
           /\ \A k \in 1..Len(items) :
                 items[k].content = parseInline(LineKind(listLines[k]).content)
           /\ Len(quotes) = Len(quoteLines)
           /\ \A k \in 1..Len(quotes) :
                 quotes[k].content = parseInline(SubSeq(quoteLines[k], 3,
                                                        Len(quoteLines[k])))

\* a bold span after two spaces in a list item, and two quote lines, one
\* with an italic span, parsed
C13_Witness ==
    /\ pc = "buildDelta"
    /\ text = <<"-", " ", " ", "*", "*", "a", "*", "*", "\n",
                ">", " ", "*", "a", "*", "\n", ">", " ", "a">>
    /\ tokens = <<BulletList(<<ListItem(<<Text(<<" ">>),
                                          Bold(<<Text(<<"a">>)>>)>>, 0)>>),
                  Blockquote(<<Italic(<<Text(<<"a">>)>>)>>),
                  Blockquote(<<Text(<<"a">>)>>)>>

\* a line the block scanner takes for none of list item, blockquote, empty
IsParagraphLine(line) ==
    line # <<>> /\ ~IsListLine(line) /\ ~IsQuoteLine(line)

\* the members of a set of numbers, in increasing order
RECURSIVE Sorted(_)
Sorted(S) ==
    IF S = {} THEN <<>> ELSE <<SetMin(S)>> \o Sorted(S \ {SetMin(S)})

\* C18: a line that is no list line, no blockquote line and not empty gives
\* one Paragraph holding parseInline of the whole line, and a Newline token
\* comes right after that Paragraph exactly when the line is not the last of
\* the input; "a\n\na" gives [Paragraph, Newline, Newline, Paragraph] and "a"
\* a single Paragraph.
C18_ParagraphThenNewline ==
    pc # "parseMarkdown" =>
        LET lines == Split(text)
            at == Sorted({l \in 1..Len(lines) : IsParagraphLine(lines[l])})
            pos == Sorted({t \in 1..Len(tokens) : tokens[t].type = "paragraph"})
            empty == {l \in 1..Len(lines) : lines[l] = <<>>}
            newlines == {t \in 1..Len(tokens) : tokens[t] = Newline}
        IN /\ Len(pos) = Len(at)
           /\ \A k \in 1..Len(pos) :
                 /\ tokens[pos[k]] = Paragraph(parseInline(lines[at[k]]))
                 /\ (pos[k] < Len(tokens) /\ tokens[pos[k] + 1] = Newline)
                       <=> at[k] < Len(lines)
           /\ Cardinality(newlines) =
                 Cardinality(empty) + Cardinality({k \in 1..Len(at) : at[k] < Len(lines)})
           /\ text = <<"a", "\n", "\n", "a">> =>
                 tokens = <<Paragraph(<<Text(<<"a">>)>>), Newline, Newline,
                            Paragraph(<<Text(<<"a">>)>>)>>
           /\ text = <<"a">> => tokens = <<Paragraph(<<Text(<<"a">>)>>)>>

\* a paragraph line, an empty line and a last paragraph line, parsed
C18_Witness ==
    /\ pc = "buildDelta"
    /\ text = <<"a", "\n", "\n", "a">>
    /\ Len(tokens) = 4
    /\ tokens[1].type = "paragraph" /\ tokens[2] = Newline
    /\ tokens[3] = Newline /\ tokens[4].type = "paragraph"

-----------------------------------------------------------------------------
(* The parser and the compiler on every input: both sets of calls *)

InitParse == InitInline \/ InitDelta

NextParse == NextInline \/ NextDelta

SpecParse == InitParse /\ [][NextParse]_vars

\* the locals of parseInline at the head of its first n iterations, and at
\* loop exit if it comes within them
RECURSIVE ScanIterations(_, _, _)
ScanIterations(s, st, n) ==
    IF st.i < Len(s) /\ n > 0
    THEN <<st>> \o ScanIterations(s, ScanStep(s, st), n - 1)
    ELSE <<st>>

\* the locals of parseMarkdown at the head of its first n outer iterations
RECURSIVE BlockIterations(_, _, _)
BlockIterations(lines, st, n) ==
    IF st.i < Len(lines) /\ n > 0
    THEN <<st>> \o BlockIterations(lines, BlockStep(lines, st), n - 1)
    ELSE <<st>>

\* a sequence of inline tokens, spans holding such sequences
RECURSIVE IsInlineTokens(_)
IsInlineTokens(toks) ==
    \A k \in 1..Len(toks) :
        CASE toks[k].type = "text" -> DOMAIN toks[k] = {"type", "content"}
          [] toks[k].type \in {"bold", "italic"} ->
                /\ DOMAIN toks[k] = {"type", "children"}
                /\ IsInlineTokens(toks[k].children)
          [] toks[k].type = "link" ->
                /\ DOMAIN toks[k] = {"type", "children", "url"}
                /\ IsInlineTokens(toks[k].children)
          [] OTHER -> FALSE

\* a sequence of block tokens
IsBlockTokens(toks) ==
    \A k \in 1..Len(toks) :
        CASE toks[k].type \in {"paragraph", "blockquote"} ->
                IsInlineTokens(toks[k].content)
          [] toks[k].type \in {"bulletList", "orderedList"} ->
                \A j \in 1..Len(toks[k].items) :
                    /\ IsInlineTokens(toks[k].items[j].content)
                    /\ toks[k].items[j].indent \in Nat
          [] toks[k].type = "newline" -> TRUE
          [] OTHER -> FALSE

\* a sequence of Delta operations
IsOps(o) ==
    \A k \in 1..Len(o) :
        \/ DOMAIN o[k] = {"retain"} /\ o[k].retain \in Nat
        \/ /\ DOMAIN o[k] \in {{"insert"}, {"insert", "attributes"}}
           /\ o[k].insert \in Seq(Characters \cup InlineChars)

\* the span branch m recurses on a string strictly shorter than s
RECURSIVE InlineTotal(_)
Shorter(m, s) == m.ok => (Len(m.inner) < Len(s) /\ InlineTotal(m.inner))

\* parseInline on s: the loop is left within Len(s) iterations, the cursor
\* grows at each, every recursive call is on a strictly shorter string and
\* is itself such a call
InlineTotal(s) ==
    LET run == ScanIterations(s, ScanInit, Len(s))
    IN /\ run[Len(run)].i >= Len(s)
       /\ \A k \in 1..(Len(run) - 1) :
             /\ run[k + 1].i > run[k].i
             /\ Shorter(MatchLink(s, run[k].i), s)
             /\ Shorter(MatchBold(s, run[k].i), s)
             /\ Shorter(MatchItalic(s, run[k].i), s)

\* parseMarkdown on s: the outer loop is left within one iteration per line,
\* the line cursor grows at each and never passes the last line, a list
\* takes one line per item, and the result is a block token sequence
BlockTotal(s) ==
    LET lines == Split(s)
        run == BlockIterations(lines, [i |-> 0, tokens |-> <<>>], Len(lines))
    IN /\ run[Len(run)].i = Len(lines)
       /\ \A k \in 1..(Len(run) - 1) :
             LET new == run[k + 1].tokens[Len(run[k].tokens) + 1]
             IN /\ run[k + 1].i > run[k].i
                /\ IsListToken(new) => Len(new.items) = run[k + 1].i - run[k].i
                /\ ~IsListToken(new) => run[k + 1].i = run[k].i + 1
       /\ \A k \in 1..Len(lines) : InlineTotal(lines[k])
       /\ IsBlockTokens(parseMarkdown(s))

\* C14: the parser and the compiler raise no errors: parseInline and
\* parseMarkdown end on every input and return a token sequence, buildDelta
\* ends on every token list and offset and returns an operation list; the
\* inline cursor and the line cursor grow at every loop iteration and every
\* recursive call of parseInline is on a strictly shorter string.
C14_TotalAndAdvancing ==
    /\ pc = "parseInline" => InlineTotal(text)
    /\ pc = "inlineParsed" => IsInlineTokens(tokens)
    /\ pc = "parseMarkdown" => BlockTotal(text)
    /\ pc = "buildDelta" => IsBlockTokens(tokens)
    /\ pc = "built" => IsOps(ops)

\* a bold span holding an italic span: two levels of recursive calls, done
C14_Witness ==
    /\ pc = "inlineParsed"
    /\ text = ExBoldItalic
    /\ Len(ScanIterations(text, ScanInit, Len(text))) = 2
    /\ tokens = <<Bold(<<Text(<<"a", " ">>), Italic(<<Text(<<"b">>)>>),
                         Text(<<" ", "c">>)>>)>>

-----------------------------------------------------------------------------
(* looksLikeMarkdown: the six regular expressions *)

\* the characters [\t ] matches, . matches and \S matches
Indent == {"\t", " "}
Dot(c) == c # Undefined /\ c \notin LineTerminators
NonSpace(c) == c # Undefined /\ c \notin WhiteSpace \cup {"\n"}

\* ^ under the m flag: the start of the text or just after a line terminator
LineStart(s, p) == p = 0 \/ At(s, p - 1) \in LineTerminators

\* /^[\t ]*[-*] .+/m matched from position p
ReBulletAt(s, p) ==
    LET n == RunLength(s, p, Indent)
    IN /\ LineStart(s, p)
       /\ At(s, p + n) \in {"-", "*"}
       /\ At(s, p + n + 1) = " "
       /\ Dot(At(s, p + n + 2))

\* /^[\t ]*\d+\. .+/m matched from position p
ReOrderedAt(s, p) ==
    LET n == RunLength(s, p, Indent)
        d == RunLength(s, p + n, Digits)
    IN /\ LineStart(s, p)
       /\ d > 0
       /\ At(s, p + n + d) = "."
       /\ At(s, p + n + d + 1) = " "
       /\ Dot(At(s, p + n + d + 2))

\* /^[\t ]*> .+/m matched from position p
ReQuoteAt(s, p) ==
    LET n == RunLength(s, p, Indent)
    IN /\ LineStart(s, p)
       /\ At(s, p + n) = ">"
       /\ At(s, p + n + 1) = " "
       /\ Dot(At(s, p + n + 2))

\* the lazy .+? of the bold pattern grown up to k, then \*\*
RECURSIVE BoldClose(_, _)
BoldClose(s, k) ==
    IF At(s, k) = "*" /\ At(s, k + 1) = "*" THEN TRUE
    ELSE IF Dot(At(s, k)) THEN BoldClose(s, k + 1)
    ELSE FALSE

\* /\*\*.+?\*\*/ matched from position p
ReBoldAt(s, p) ==
    /\ At(s, p) = "*" /\ At(s, p + 1) = "*"
    /\ Dot(At(s, p + 2))
    /\ BoldClose(s, p + 3)

\* faulty variant: no lookbehind and no lookahead at the closing *
RECURSIVE ItalicCloseBug(_, _)
ItalicCloseBug(s, k) ==
    IF At(s, k) = "*" THEN TRUE
    ELSE IF Dot(At(s, k)) THEN ItalicCloseBug(s, k + 1)
    ELSE FALSE

\* the lazy .+? of the italic pattern grown up to k, then (?<!\*)\*(?!\*)
RECURSIVE ItalicClose(_, _)
ItalicClose(s, k) ==
    IF At(s, k - 1) # "*" /\ At(s, k) = "*" /\ At(s, k + 1) # "*" THEN TRUE
    ELSE IF Dot(At(s, k)) THEN ItalicClose(s, k + 1)
    ELSE FALSE

\* /(?<!\*)\*(?!\*)(?=\S).+?(?<!\*)\*(?!\*)/ matched from position p
ReItalicAt(s, p) ==
    /\ At(s, p - 1) # "*" /\ At(s, p) = "*" /\ At(s, p + 1) # "*"
    /\ NonSpace(At(s, p + 1))
    /\ Dot(At(s, p + 1))
    /\ ItalicClose(s, p + 2)

\* the lazy .+? of the url grown up to k, then \)
RECURSIVE UrlClose(_, _)
UrlClose(s, k) ==
    IF At(s, k) = ")" THEN TRUE
    ELSE IF Dot(At(s, k)) THEN UrlClose(s, k + 1)
    ELSE FALSE

\* the lazy .+? of the link text grown up to k, then \]\(.+?\)
RECURSIVE LinkClose(_, _)
LinkClose(s, k) ==
    IF /\ At(s, k) = "]" /\ At(s, k + 1) = "("
       /\ Dot(At(s, k + 2))
       /\ UrlClose(s, k + 3)
    THEN TRUE
    ELSE IF Dot(At(s, k)) THEN LinkClose(s, k + 1)
    ELSE FALSE

\* /\[.+?\]\(.+?\)/ matched from position p
ReLinkAt(s, p) ==
    /\ At(s, p) = "["
    /\ Dot(At(s, p + 1))
    /\ LinkClose(s, p + 2)

\* regex.test(text), by the positions a match can start from
Positions(s) == 0..Len(s)

looksLikeMarkdown(s) ==
    IF \E p \in Positions(s) : ReBulletAt(s, p) THEN TRUE
    ELSE IF \E p \in Positions(s) : ReOrderedAt(s, p) THEN TRUE
    ELSE IF \E p \in Positions(s) : ReQuoteAt(s, p) THEN TRUE
    ELSE IF \E p \in Positions(s) : ReBoldAt(s, p) THEN TRUE
    ELSE IF \E p \in Positions(s) : ReItalicAt(s, p) THEN TRUE
    ELSE IF \E p \in Positions(s) : ReLinkAt(s, p) THEN TRUE
    ELSE FALSE

-----------------------------------------------------------------------------
(* looksLikeMarkdown called on a text *)

MaxDetectLen == 5
MaxDetectLines == 2

\* the texts of the predicate's test suite
TestBullet ==
    <<"-", " ", "i", "t", "e", "m">>
TestStar ==
    <<"*", " ", "i", "t", "e", "m">>
TestNested ==
    <<" ", " ", "-", " ", "n", "e", "s", "t", "e", "d", " ", "i", "t", "e",
    "m">>
TestOrdered ==
    <<"1", ".", " ", "f", "i", "r", "s", "t">>
TestNestedOrdered ==
    <<" ", " ", "1", ".", " ", "n", "e", "s", "t", "e", "d">>
TestQuote ==
    <<">", " ", "q", "u", "o", "t", "e", "d">>
TestBold ==
    <<"s", "o", "m", "e", " ", "*", "*", "b", "o", "l", "d", "*", "*", " ",
    "t", "e", "x", "t">>
TestItalic ==
    <<"s", "o", "m", "e", " ", "*", "i", "t", "a", "l", "i", "c", "*", " ",
    "t", "e", "x", "t">>
TestLink ==
    <<"[", "c", "l", "i", "c", "k", "]", "(", "h", "t", "t", "p", "s", ":",
    "/", "/", "e", "x", "a", "m", "p", "l", "e", ".", "c", "o", "m", ")">>
TestPlain ==
    <<"h", "e", "l", "l", "o", " ", "w", "o", "r", "l", "d">>
TestEmpty ==
    <<>>
TestArithmetic ==
    <<"5", " ", "*", " ", "3", " ", "=", " ", "1", "5">>
TestListLater ==
    <<"p", "l", "a", "i", "n", " ", "t", "e", "x", "t", "\n", "-", " ", "i",
    "t", "e", "m", "1", "\n", "-", " ", "i", "t", "e", "m", "2">>
TestBoldLater ==
    <<"l", "i", "n", "e", " ", "o", "n", "e", "\n", "*", "*", "b", "o", "l",
    "d", " ", "l", "i", "n", "e", "*", "*">>

TestTexts ==
    {TestBullet, TestStar, TestNested, TestOrdered, TestNestedOrdered,
     TestQuote, TestBold, TestItalic, TestLink, TestPlain, TestEmpty,
     TestArithmetic, TestListLater, TestBoldLater}

\* emphasis, spaces and line breaks in every arrangement
EmphasisChars == {"*", " ", "a", "\n"}

\* the lines of the block scanner, and markers with nothing after them or
\* with other indentation
DetectLines ==
    BlockLines \cup
    { <<"-", " ">>,
      <<"1", ".", " ">>,
      <<">", " ">>,
      <<"\t", ">", " ", "a">>,
      <<"a", "\r", "-", " ", "a">> }

DetectInputs ==
    Strings(EmphasisChars, 0, MaxDetectLen)
    \cup InlineInputs
    \cup {Join(lines) : lines \in Strings(DetectLines, 1, MaxDetectLines)}
    \cup TestTexts

InitDetect ==
    /\ pc = "looksLikeMarkdown"
    /\ text \in DetectInputs
    /\ tokens = <<>>
    /\ inherited = NoAttributes
    /\ index = 0
    /\ ops = <<>>
    /\ quill = NoQuill
    /\ dom = NoDom
    /\ event = NoEvent
    /\ detected = FALSE
    /\ window = NoWindow
    /\ dispatch = NoDispatch
    /\ executions = 0

LooksLikeMarkdownCall ==
    /\ pc = "looksLikeMarkdown"
    /\ detected' = looksLikeMarkdown(text)
    /\ pc' = "detected"
    /\ UNCHANGED <<text, tokens, inherited, index, ops, quill, dom, event,
                   window, dispatch, executions>>

NextDetect == LooksLikeMarkdownCall

SpecDetect == InitDetect /\ [][NextDetect]_vars

-----------------------------------------------------------------------------
(* Properties of looksLikeMarkdown *)

\* all of s[a..b] (from 0) are characters other than line terminators
OneLine(s, a, b) == \A k \in a..b : Dot(At(s, k))

\* a `**`, at least one character, a `**`, on one line
HasBoldSpan(s) ==
    \E i, j \in Positions(s) :
        /\ j >= i + 3
        /\ At(s, i) = "*" /\ At(s, i + 1) = "*"
        /\ At(s, j) = "*" /\ At(s, j + 1) = "*"
        /\ OneLine(s, i + 2, j - 1)

\* a `*` that no `*` touches
LoneStar(s, i) == At(s, i) = "*" /\ At(s, i - 1) # "*" /\ At(s, i + 1) # "*"

\* a lone `*` followed by a non-whitespace character, at least one character,
\* a lone `*`, on one line
HasItalicSpan(s) ==
    \E i, j \in Positions(s) :
        /\ j >= i + 2
        /\ LoneStar(s, i) /\ NonSpace(At(s, i + 1))
        /\ LoneStar(s, j)
        /\ OneLine(s, i + 1, j - 1)

\* `[`, at least one character, `](`, at least one character, `)`, on one line
HasLinkSpan(s) ==
    \E i, j, k \in Positions(s) :
        /\ j >= i + 2 /\ k >= j + 3
        /\ At(s, i) = "[" /\ At(s, j) = "]" /\ At(s, j + 1) = "(" /\ At(s, k) = ")"
        /\ OneLine(s, i + 1, j - 1) /\ OneLine(s, j + 2, k - 1)

\* a line the block scanner takes for a list item or a blockquote
HasScannerLine(s) ==
    \E l \in 1..Len(Split(s)) : IsListLine(Split(s)[l]) \/ IsQuoteLine(Split(s)[l])

\* after a line break (\n or \r) or at the start: tabs and spaces, then `-`
\* or `*`, or digits and `.`, or `>`, then a space and one more character of
\* the line
HasMarkedLine(s) ==
    \E p, q \in Positions(s) :
        /\ LineStart(s, p)
        /\ q >= p
        /\ \A k \in p..(q - 1) : At(s, k) \in Indent
        /\ \/ At(s, q) \in {"-", "*", ">"} /\ At(s, q + 1) = " " /\ Dot(At(s, q + 2))
           \/ \E d \in 1..Len(s) :
                 /\ \A k \in q..(q + d - 1) : At(s, k) \in Digits
                 /\ At(s, q + d) = "." /\ At(s, q + d + 1) = " "
                 /\ Dot(At(s, q + d + 2))

\* nothing but letters, spaces and line breaks
IsPlain(s) == \A k \in 1..Len(s) : s[k] \in {"a", " ", "\n"}

\* C16 as stated: looksLikeMarkdown is true exactly when the text holds a
\* bullet-list line, an ordered-list line or a blockquote line of the block
\* scanner, a `**...**` span, a `*...*` span whose opening `*` is followed by
\* a non-whitespace character and whose delimiters are not part of a `**`
\* pair, or a `[...](...)` span.
C16_DetectsScannerPatterns ==
    pc = "detected" =>
        (detected <=> \/ HasScannerLine(text)
                      \/ HasBoldSpan(text)
                      \/ HasItalicSpan(text)
                      \/ HasLinkSpan(text))

\* C16 amended: looksLikeMarkdown is true exactly when the text holds a line
\* (lines ending at \n or \r) that after optional tabs and spaces has a
\* bullet, ordered or blockquote marker, a space and at least one more
\* character, or a `**...**`, lone-star `*...*` or `[...](...)` span with at
\* least one character inside and no line break; it is false for the empty
\* string, for plain text and for "5 * 3 = 15", and true for a list line
\* or a bold span on a later line.
C16_DetectsPatterns ==
    pc = "detected" =>
        /\ detected <=> \/ HasMarkedLine(text)
                        \/ HasBoldSpan(text)
                        \/ HasItalicSpan(text)
                        \/ HasLinkSpan(text)
        /\ IsPlain(text) => ~detected
        /\ text \in {TestEmpty, TestPlain, TestArithmetic} => ~detected
        /\ text \in TestTexts \ {TestEmpty, TestPlain, TestArithmetic} => detected

\* an indented blockquote marker, which the block scanner takes for a
\* paragraph, detected
C16_Witness ==
    /\ pc = "detected"
    /\ text = <<" ", ">", " ", "a">>
    /\ detected
    /\ ~HasScannerLine(text)

\* a Bold, Italic or Link token among toks (a span at any depth lies in a
\* span of the top level)
HasSpan(toks) ==
    \E k \in 1..Len(toks) :
        toks[k].type \in {"bold", "italic", "link"}

\* the parser formats something: a list, a blockquote, or a span in the
\* content of a block
Formats(toks) ==
    \E k \in 1..Len(toks) :
        \/ toks[k].type \in {"bulletList", "orderedList", "blockquote"}
        \/ toks[k].type = "paragraph" /\ HasSpan(toks[k].content)

\* C17: looksLikeMarkdown is true of every text for which parseMarkdown
\* gives a BulletList, OrderedList or Blockquote token, or a Bold, Italic or
\* Link token at any depth: the predicate never rejects a text the parser
\* would format.
C17_DetectsWhatParserFormats ==
    pc = "detected" => (Formats(parseMarkdown(text)) => detected)

-----------------------------------------------------------------------------
(* slackMarkdown on the page's editor *)

MaxPasteLines == 2
MaxDocLength == 2

\* quill.getSelection(true): null, or a range with an index
Null == <<>>
Range(i) == [index |-> i]

\* what the page can hold of the editor: no .ql-editor element, an element
\* outside any .ql-container, a container with no Quill-like object, a
\* container with __quill, a container with a Quill-like own property
DomStates ==
    { [editor |-> FALSE, container |-> FALSE, instance |-> "none"],
      [editor |-> TRUE, container |-> FALSE, instance |-> "none"],
      [editor |-> TRUE, container |-> TRUE, instance |-> "none"],
      [editor |-> TRUE, container |-> TRUE, instance |-> "__quill"],
      [editor |-> TRUE, container |-> TRUE, instance |-> "property"] }

\* faulty variant: the container itself taken for the instance
getQuillBug(d) == d.editor /\ d.container

\* getQuill(target) returns an instance (not null)
getQuill(d) == d.editor /\ d.container /\ d.instance # "none"

\* the document after quill.updateContents(delta): the first `retain`
\* characters kept, every insert put in after them in order, the rest after
RECURSIVE ApplyDelta(_, _, _)
ApplyDelta(doc, at, o) ==
    IF o = <<>> THEN doc
    ELSE IF IsStringInsert(Head(o))
    THEN ApplyDelta(slice(doc, 0, at) \o Head(o).insert \o sliceFrom(doc, at),
                    at + Len(Head(o).insert), Tail(o))
    ELSE ApplyDelta(doc, at + Head(o).retain, Tail(o))

PasteLines ==
    { <<>>,
      <<"a">>,
      <<"*", "*", "a", "*", "*">>,
      <<"-", " ", "a">>,
      <<" ", " ", "1", ".", " ", "a">>,
      <<">", " ", "a">> }

PasteTexts == {Join(lines) : lines \in Strings(PasteLines, 1, MaxPasteLines)}

\* a paste event: whether e.target is inside a .ql-editor, whether it has a
\* clipboardData, the text/plain data, and what the listener has called on it
ClipboardEvent(inEditor, hasClipboard, data) ==
    [inEditor |-> inEditor, hasClipboard |-> hasClipboard, data |-> data,
     defaultPrevented |-> FALSE, propagationStopped |-> FALSE]

\* a Quill document ends with a newline
Documents == {d \o <<"\n">> : d \in Strings({"a"}, 0, MaxDocLength - 1)}

Selections(doc) == {Null} \cup {Range(i) : i \in 0..(Len(doc) - 1)}

\* slackMarkdown or the listener has come to a return
Returned == {"done", "aborted", "ignored"}

\* the window of a page the script has not been executed in: the ready flag
\* unset, window.__slackMarkdown never assigned, no paste listener on document
Fresh == [ready |-> FALSE, slackMarkdown |-> 0, listeners |-> 0]

\* faulty variant: no ready flag is looked at
pageScriptBug(w) ==
    [ready |-> TRUE, slackMarkdown |-> w.slackMarkdown + 1,
     listeners |-> w.listeners + 1]

\* the top-level code of the page script run on window w: under the guard,
\* set the flag, assign window.__slackMarkdown, add the paste listener
pageScript(w) ==
    IF w # NoWindow /\ ~w.ready
    THEN [ready |-> TRUE, slackMarkdown |-> w.slackMarkdown + 1,
          listeners |-> w.listeners + 1]
    ELSE w

\* the page after the first execution of the script
Loaded == pageScript(Fresh)

Init ==
    /\ pc = "idle"
    /\ text = <<>>
    /\ tokens = <<>>
    /\ inherited = NoAttributes
    /\ index = 0
    /\ ops = <<>>
    /\ dom \in DomStates
    /\ event = NoEvent
    /\ detected = FALSE
    /\ window = Loaded
    /\ dispatch = NoDispatch
    /\ executions = 1
    /\ \E doc \in Documents :
          quill \in {[contents |-> doc, selection |-> sel] : sel \in Selections(doc)}

\* the user pastes: the browser dispatches a paste event to the listener
PasteEvent ==
    /\ pc = "idle"
    /\ Len(quill.contents) <= MaxDocLength
    /\ \E inEditor, hasClipboard \in BOOLEAN, data \in PasteTexts :
          /\ inEditor => dom.editor
          /\ ~hasClipboard => data = <<>>
          /\ event' = ClipboardEvent(inEditor, hasClipboard, data)
    /\ IF window.listeners > 0
       THEN /\ pc' = "paste"
            /\ dispatch' = [pending |-> window.listeners - 1, conversions |-> 0]
       ELSE /\ pc' = "ignored"
            /\ dispatch' = NoDispatch
    /\ UNCHANGED <<text, tokens, inherited, index, ops, quill, dom, detected,
                   window, executions>>

\* faulty variant: the target is not looked at
PasteTargetBug ==
    /\ pc = "paste"
    /\ pc' = "clipboard"
    /\ UNCHANGED <<text, tokens, inherited, index, ops, quill, dom, event, detected,
                   window, dispatch, executions>>

\* if (!target.closest?.(".ql-editor")) return;
PasteTarget ==
    /\ pc = "paste"
    /\ pc' = IF event.inEditor THEN "clipboard" ELSE "ignored"
    /\ UNCHANGED <<text, tokens, inherited, index, ops, quill, dom, event, detected,
                   window, dispatch, executions>>

\* const text = e.clipboardData?.getData("text/plain");
\* if (!text || !looksLikeMarkdown(text)) return;
PasteText ==
    /\ pc = "clipboard"
    /\ IF event.hasClipboard /\ event.data # <<>>
       THEN /\ detected' = looksLikeMarkdown(event.data)
            /\ IF detected'
               THEN pc' = "preventDefault" /\ text' = event.data
               ELSE pc' = "ignored" /\ text' = <<>>
       ELSE pc' = "ignored" /\ UNCHANGED <<text, detected>>
    /\ UNCHANGED <<tokens, inherited, index, ops, quill, dom, event,
                   window, dispatch, executions>>

\* e.preventDefault()
PastePreventDefault ==
    /\ pc = "preventDefault"
    /\ event' = [event EXCEPT !.defaultPrevented = TRUE]
    /\ pc' = "stopPropagation"
    /\ UNCHANGED <<text, tokens, inherited, index, ops, quill, dom, detected,
                   window, dispatch, executions>>

\* e.stopPropagation()
PasteStopPropagation ==
    /\ pc = "stopPropagation"
    /\ event' = [event EXCEPT !.propagationStopped = TRUE]
    /\ pc' = "slackMarkdown"
    /\ UNCHANGED <<text, tokens, inherited, index, ops, quill, dom, detected,
                   window, dispatch, executions>>

\* slackMarkdown(text, target), called by the listener, parses its argument
PasteSlackMarkdown ==
    /\ pc = "slackMarkdown"
    /\ tokens' = parseMarkdown(text)
    /\ dispatch' = [dispatch EXCEPT !.conversions = @ + 1]
    /\ pc' = "getQuill"
    /\ UNCHANGED <<text, inherited, index, ops, quill, dom, event, detected,
                   window, executions>>

\* slackMarkdown(markdown) is called by hand and parses its argument
SlackMarkdownCall ==
    /\ pc = "idle"
    /\ Len(quill.contents) <= MaxDocLength
    /\ \E markdown \in PasteTexts :
          /\ text' = markdown
          /\ tokens' = parseMarkdown(markdown)
    /\ pc' = "getQuill"
    /\ UNCHANGED <<inherited, index, ops, quill, dom, event, detected,
                   window, dispatch, executions>>

\* const quill = getQuill(target); if (!quill) return;
SlackGetQuill ==
    /\ pc = "getQuill"
    /\ pc' = IF getQuill(dom) THEN "getSelection" ELSE "aborted"
    /\ UNCHANGED <<text, tokens, inherited, index, ops, quill, dom, event, detected,
                   window, dispatch, executions>>

\* faulty variant: with no selection, the document length is the offset
SlackGetSelectionBug ==
    /\ pc = "getSelection"
    /\ index' = IF quill.selection # Null THEN quill.selection.index
                ELSE Len(quill.contents)
    /\ pc' = "buildDelta"
    /\ UNCHANGED <<text, tokens, inherited, ops, quill, dom, event, detected,
                   window, dispatch, executions>>

\* sel ? sel.index : quill.getLength() - 1
SlackGetSelection ==
    /\ pc = "getSelection"
    /\ index' = IF quill.selection # Null THEN quill.selection.index
                ELSE Len(quill.contents) - 1
    /\ pc' = "buildDelta"
    /\ UNCHANGED <<text, tokens, inherited, ops, quill, dom, event, detected,
                   window, dispatch, executions>>

SlackBuildDelta ==
    /\ pc = "buildDelta"
    /\ ops' = buildDelta(tokens, index)
    /\ pc' = "updateContents"
    /\ UNCHANGED <<text, tokens, inherited, index, quill, dom, event, detected,
                   window, dispatch, executions>>

\* quill.updateContents(delta, "user")
SlackUpdateContents ==
    /\ pc = "updateContents"
    /\ quill' = [quill EXCEPT !.contents = ApplyDelta(quill.contents, 0, ops)]
    /\ pc' = "setSelection"
    /\ UNCHANGED <<text, tokens, inherited, index, ops, dom, event, detected,
                   window, dispatch, executions>>

\* quill.setSelection(index + insertedLen)
SlackSetSelection ==
    /\ pc = "setSelection"
    /\ quill' = [quill EXCEPT
                    !.selection = Range(index + countInsertedLength(ops))]
    /\ pc' = "done"
    /\ UNCHANGED <<text, tokens, inherited, index, ops, dom, event, detected,
                   window, dispatch, executions>>

\* slackMarkdown, or the listener that called it, returns: the locals are
\* gone; the browser calls the next paste listener of document with the same
\* event (stopPropagation does not keep the listeners of the same node from
\* running), and with none left the event is gone
Return ==
    /\ pc \in Returned
    /\ text' = <<>> /\ tokens' = <<>> /\ index' = 0 /\ ops' = <<>>
    /\ detected' = FALSE
    /\ IF dispatch.pending > 0
       THEN /\ pc' = "paste"
            /\ dispatch' = [dispatch EXCEPT !.pending = @ - 1]
            /\ event' = event
       ELSE /\ pc' = "idle"
            /\ dispatch' = NoDispatch
            /\ event' = NoEvent
    /\ UNCHANGED <<inherited, quill, dom, window, executions>>

\* between calls the user moves the cursor or leaves the editor
UserSelects ==
    /\ pc = "idle"
    /\ Len(quill.contents) <= MaxDocLength
    /\ \E sel \in Selections(quill.contents) :
          quill' = [quill EXCEPT !.selection = sel]
    /\ UNCHANGED <<pc, text, tokens, inherited, index, ops, dom, event, detected,
                   window, dispatch, executions>>

\* between calls the page builds or drops the editor
DomChanges ==
    /\ pc = "idle"
    /\ Len(quill.contents) <= MaxDocLength
    /\ dom' \in DomStates
    /\ UNCHANGED <<pc, text, tokens, inherited, index, ops, quill, event, detected,
                   window, dispatch, executions>>

Next ==
    \/ PasteEvent
    \/ PasteTarget
    \/ PasteText
    \/ PastePreventDefault
    \/ PasteStopPropagation
    \/ PasteSlackMarkdown
    \/ SlackMarkdownCall
    \/ SlackGetQuill
    \/ SlackGetSelection
    \/ SlackBuildDelta
    \/ SlackUpdateContents
    \/ SlackSetSelection
    \/ Return
    \/ UserSelects
    \/ DomChanges

Spec == Init /\ [][Next]_vars

-----------------------------------------------------------------------------
(* The page from before the script is injected *)

MaxExecutions == 2

InitPage ==
    /\ pc = "idle"
    /\ text = <<>>
    /\ tokens = <<>>
    /\ inherited = NoAttributes
    /\ index = 0
    /\ ops = <<>>
    /\ dom \in DomStates
    /\ event = NoEvent
    /\ detected = FALSE
    /\ window = Fresh
    /\ dispatch = NoDispatch
    /\ executions = 0
    /\ \E doc \in Documents :
          quill \in {[contents |-> doc, selection |-> sel] : sel \in Selections(doc)}

\* a tab update completes on a Slack page: the background worker executes
\* the page script in the page, between two tasks of the page
ExecutePageScript ==
    /\ pc = "idle"
    /\ executions < MaxExecutions
    /\ window' = pageScript(window)
    /\ executions' = executions + 1
    /\ UNCHANGED <<pc, text, tokens, inherited, index, ops, quill, dom, event,
                   detected, dispatch>>

NextPage == ExecutePageScript \/ Next

SpecPage == InitPage /\ [][NextPage]_vars

\* C21: however many times the page script is executed in the same page, the
\* paste listener is installed at most once and window.__slackMarkdown is
\* assigned at most once: the first execution sets the ready flag and does
\* both, every later execution changes nothing, and so one paste event
\* triggers at most one conversion (the listener runs once for it).
C21_InstalledOnce ==
    [][ /\ window'.listeners <= 1 /\ window'.slackMarkdown <= 1
        /\ window'.ready <=> executions' >= 1
        /\ (executions' # executions /\ executions = 0) => window' = Loaded
        /\ (executions' # executions /\ executions >= 1) =>
              (window.ready /\ window' = window)
        /\ executions' = executions => window' = window
        /\ dispatch'.conversions <= 1 /\ dispatch'.pending = 0
        /\ pc \in Returned => pc' = "idle"
      ]_vars

\* a paste converted once in a page the script was executed in twice
C21_Witness ==
    /\ executions = 2
    /\ window = [ready |-> TRUE, slackMarkdown |-> 1, listeners |-> 1]
    /\ pc = "done"
    /\ dispatch = [pending |-> 0, conversions |-> 1]
    /\ event.defaultPrevented
    /\ text = <<"-", " ", "a">>

\* the texts of the Inserts of o, one after the other
RECURSIVE InsertedText(_)
InsertedText(o) ==
    IF o = <<>> THEN <<>>
    ELSE InsertedText(SubSeq(o, 1, Len(o) - 1))
         \o (IF "insert" \in DOMAIN o[Len(o)] THEN o[Len(o)].insert ELSE <<>>)

\* C3: the cursor slackMarkdown sets after applying the operations is the
\* starting offset k plus the lengths of the texts of all the Inserts emitted;
\* the Retain adds nothing.
C3_CursorAfterInserted ==
    pc = "done" =>
        /\ quill.selection = Range(index + Len(InsertedText(ops)))
        /\ index > 0 => ops[1] = [retain |-> index]

C3_Witness ==
    /\ pc = "done"
    /\ index = 1
    /\ text = <<"-", " ", "a", "\n", "*", "*", "a", "*", "*">>
    /\ ops[1] = [retain |-> 1]
    /\ quill.selection = Range(4)
    /\ quill.contents = <<"a", "a", "\n", "a", "\n">>

\* an editor element, its container and a Quill-like object on it are there
EditorLocated(d) ==
    d.editor /\ d.container /\ d.instance \in {"__quill", "property"}

\* C15: if the editor instance cannot be located (no editor element, no
\* container, or no Quill-like object on the container) slackMarkdown returns
\* without applying an operation list and without setting the cursor: the
\* document and the cursor are as before the call; a call made when the
\* editor can be located, after such a call or not, goes on as a normal call.
C15_AbortLeavesDocument ==
    [][ /\ pc' = "getQuill" => (quill' = quill /\ dom' = dom)
        /\ (pc = "getQuill" /\ ~EditorLocated(dom)) =>
              /\ pc' = "aborted"
              /\ quill' = quill /\ dom' = dom
              /\ ops' = <<>> /\ ops = <<>>
        /\ (pc = "getQuill" /\ EditorLocated(dom)) =>
              /\ pc' = "getSelection"
              /\ tokens' = parseMarkdown(text')
        /\ pc = "aborted" =>
              (pc' = "idle" /\ quill' = quill /\ dom' = dom /\ text' = <<>>)
        /\ pc = "idle" =>
              (text = <<>> /\ tokens = <<>> /\ ops = <<>> /\ event = NoEvent)
      ]_vars

\* a call returned early on a container that holds no Quill-like object
C15_Witness ==
    /\ pc = "aborted"
    /\ dom = [editor |-> TRUE, container |-> TRUE, instance |-> "none"]
    /\ quill = [contents |-> <<"a", "\n">>, selection |-> Range(1)]
    /\ ops = <<>>

\* C19: with the editor found slackMarkdown reads the cursor offset (the
\* selection's index, or the document length minus 1 with no selection),
\* then applies once the operation list built for that offset, then sets
\* the cursor once; the cursor is not set before the operations are
\* applied, and the Retain's offset is the one the final cursor is computed
\* from.
C19_FixedSequence ==
    [][ /\ pc = "getSelection" =>
              /\ pc' = "buildDelta"
              /\ index' = IF quill.selection = Null
                          THEN Len(quill.contents) - 1
                          ELSE quill.selection.index
              /\ quill' = quill
        /\ pc = "buildDelta" =>
              /\ pc' = "updateContents"
              /\ index' = index /\ quill' = quill
              /\ ops' = buildDelta(tokens, index)
              /\ index > 0 => ops'[1] = [retain |-> index]
        /\ pc = "updateContents" =>
              /\ pc' = "setSelection"
              /\ index' = index /\ ops' = ops
              /\ quill'.selection = quill.selection
              /\ quill'.contents =
                    slice(quill.contents, 0, index) \o InsertedText(ops)
                    \o sliceFrom(quill.contents, index)
        /\ pc = "setSelection" =>
              /\ pc' = "done"
              /\ index' = index /\ ops' = ops
              /\ quill'.contents = quill.contents
              /\ quill'.selection = Range(index + Len(InsertedText(ops)))
        /\ quill'.contents # quill.contents => pc = "updateContents"
        /\ quill'.selection # quill.selection =>
              pc = "setSelection" \/ (pc = "idle" /\ pc' = "idle")
      ]_vars

\* with no selection, the operations applied after the document's last
\* character but one, the cursor not yet set
C19_Witness ==
    /\ pc = "setSelection"
    /\ quill.selection = Null
    /\ index = 1
    /\ ops = <<[retain |-> 1], [insert |-> <<"a">>]>>
    /\ quill.contents = <<"a", "a", "\n">>

\* the three conditions of the paste listener
Intervenes(e) ==
    /\ e.inEditor
    /\ e.hasClipboard /\ e.data # <<>>
    /\ looksLikeMarkdown(e.data)

\* C20: the paste listener calls preventDefault and stopPropagation and then
\* slackMarkdown with the pasted text if and only if the event target is
\* inside a Quill editor element, the clipboard plain text is non-empty and
\* looksLikeMarkdown of it is true; otherwise it leaves the event untouched
\* and calls nothing; the default paste is suppressed before the conversion
\* is attempted.
C20_PasteIntercept ==
    [][ /\ pc \in {"paste", "clipboard"} =>
              /\ event' = event /\ quill' = quill
              /\ tokens' = <<>> /\ ops' = <<>>
              /\ pc' = "ignored" => ~Intervenes(event)
              /\ pc' = "preventDefault" => Intervenes(event)
              /\ pc' \in {"clipboard", "ignored", "preventDefault"}
              /\ (pc = "clipboard" /\ Intervenes(event)) => pc' = "preventDefault"
              /\ ~event.defaultPrevented /\ ~event.propagationStopped
        /\ pc = "preventDefault" =>
              /\ pc' = "stopPropagation"
              /\ event'.defaultPrevented /\ quill' = quill /\ tokens' = <<>>
        /\ pc = "stopPropagation" =>
              /\ pc' = "slackMarkdown"
              /\ event'.defaultPrevented /\ event'.propagationStopped
              /\ quill' = quill /\ tokens' = <<>>
        /\ pc = "slackMarkdown" =>
              /\ pc' = "getQuill"
              /\ Intervenes(event) /\ event' = event
              /\ event.defaultPrevented /\ event.propagationStopped
              /\ text' = event.data /\ tokens' = parseMarkdown(event.data)
              /\ quill' = quill
      ]_vars

\* a paste of a list into the editor, suppressed and converted
C20_Witness ==
    /\ pc = "done"
    /\ event = [inEditor |-> TRUE, hasClipboard |-> TRUE,
                data |-> <<"-", " ", "a">>,
                defaultPrevented |-> TRUE, propagationStopped |-> TRUE]
    /\ text = <<"-", " ", "a">>
    /\ quill.contents = <<"a", "\n", "\n">>

-----------------------------------------------------------------------------
(* Plain text through parseMarkdown and buildDelta *)

\* no line of s is a list line or a blockquote line, and s holds no * and no [
IsPlainText(s) ==
    /\ \A k \in 1..Len(s) : s[k] \notin {"*", "["}
    /\ \A k \in 1..Len(Split(s)) :
          ~IsListLine(Split(s)[k]) /\ ~IsQuoteLine(Split(s)[k])

LastLine(s) == Split(s)[Len(Split(s))]

\* C24: plain text round-trips through parse and compile: for an input with
\* no list line, no blockquote line, no * and no [, the texts of the Inserts
\* of buildDelta(parseMarkdown(input), k), one after the other, are the input
\* itself, followed by one more "\n" exactly when the last line of the input
\* is empty (the empty input included); no Insert carries attributes.
C24_PlainRoundTrip ==
    (pc = "built" /\ IsPlainText(text)) =>
        /\ InsertedText(ops) =
              text \o (IF LastLine(text) = <<>> THEN <<"\n">> ELSE <<>>)
        /\ \A k \in 1..Len(ops) :
              /\ "attributes" \notin DOMAIN ops[k]
              /\ IsStringInsert(ops[k]) \/ (k = 1 /\ ops[k] = [retain |-> index])

\* a paragraph and an empty last line, compiled at offset 1
C24_Witness ==
    /\ pc = "built"
    /\ text = <<"a", "\n">>
    /\ index = 1
    /\ ops = <<[retain |-> 1], [insert |-> <<"a">>], [insert |-> <<"\n">>],
               [insert |-> <<"\n">>]>>

=============================================================================
